---- MODULE Spec2Model ----
(***************************************************************************)
(* Model of layout/style/FontFaceSetImpl.cpp: the non-rule face record     *)
(* list, the aggregate loading status with its delayed finish check, the   *)
(* owning-thread task queue and the user font registry.                    *)
(*                                                                         *)
(* Every C++ method is an operator from a state record to a state record   *)
(* (or to a record [st, ret, err] when it returns a value); an action      *)
(* applies one public entry point to the current state and commits the     *)
(* result.  The recursive mutex makes each entry point atomic.             *)
(***************************************************************************)
EXTENDS Integers, Sequences, FiniteSets, TLC

\* ---- bounds -------------------------------------------------------------
NumNonRule == 2
MaxQueue == 2
MaxTextLen == 2
MaxTokens == 3

\* ---- universe -----------------------------------------------------------
RuleFace == 0
NonRuleFaces == 1..NumNonRule
RuleFaces == {RuleFace}
Faces == RuleFaces \cup NonRuleFaces

NoFamily == "none"
FamilyNames == {"A", "B"}
None == -1
EmptyName == ""

FaceStatuses == {"Unloaded", "Loading", "Loaded", "Error"}
TerminalStatuses == {"Loaded", "Error"}

\* A Maybe<T> is a sequence of length at most one.
Nothing == <<>>
Some(v) == <<v>>

\* Font weights; a weight range is a pair <<min, max>>.
NORMAL == 400
BOLD == 700
\* FontStretch::NORMAL (a percentage) and FontSlantStyle::NORMAL / ITALIC (an
\* oblique angle is a number of degrees between -90 and 90).
STRETCH_NORMAL == 100
SLANT_NORMAL == 0
SLANT_ITALIC == 100

\* gfxFontEntry::RangeFlags is a set of flag names.
eNoFlags == {}

\* StyleComputedFontStyleDescriptor values.
StyleDescriptors ==
  {[tag |-> "Normal", min |-> 0, max |-> 0],
   [tag |-> "Italic", min |-> 0, max |-> 0]}

Weights == {NORMAL, BOLD}

\* unicode-range values of the descriptors: U+0041-005A and U+1F600.
UpperAZ == 65..90
Emoji == {128512}

\* UTF-16 code units of the texts: 'H', 'h' and the surrogate pair of U+1F600.
CodeUnits == {72, 104, 55357, 56832}
Texts == UNION {[1..n -> CodeUnits] : n \in 0..MaxTextLen}

\* A parsed font shorthand: whether the parser accepts it, its family list
\* (family names and generic families) and its weight.
Generic == "serif"
FamilyLists ==
  {<<"A">>, <<"B">>, <<"A", "B">>, <<"B", "A">>, <<Generic>>, <<Generic, "A">>}
Shorthands == [valid : BOOLEAN, families : FamilyLists, weight : Weights]

VARIABLES
  mNonRuleFaces,                \* record list (sequence of faces)
  mStatus,                      \* aggregate FontFaceSetLoadStatus
  mNonRuleFacesDirty,
  mHasLoadingFontFaces,
  mHasLoadingFontFacesIsDirty,
  mDelayedLoadCheck,
  mOwner,                       \* TRUE while mOwner is non-null
  mLoaders,                     \* outstanding loaders (one per loading face)
  cancelled,                    \* loaders on which Cancel() was called
  userFontSetDirty,             \* the rebuild signal of MarkUserFontSetDirty
  families,                     \* registry: family name -> sequence of entries
  entryFamily,                  \* gfxUserFontEntry::mFamilyName per entry
  inSet,                        \* faces for which IsInFontFaceSet(this) holds
  faceStatus,                   \* FontFaceImpl::Status() per face
  faceFamily,                   \* FontFaceImpl::GetFamilyName() per face
  faceHasSrc,                   \* whether the face's source array is non-empty
  faceDescriptors,              \* per face: [weight: Maybe range, unicodeRange]
  entryAttributes,              \* per entry: what UpdateAttributes last stored
  faceEntry,                    \* FontFaceImpl::GetUserFontEntry() per face
  readyPending,                 \* owner's ReadyPromiseIsPending()
  notifs,                       \* last two notifications delivered to the owner
  queue,                        \* tasks dispatched to the owning thread
  postTraversal,                \* a PostTraversalTask is waiting
  lastOp,                       \* the last public call and what it returned
  matched,                      \* the last matching query and its outcome
  built                         \* the last source array built and its outcome

vars == <<mNonRuleFaces, mStatus, mNonRuleFacesDirty, mHasLoadingFontFaces,
          mHasLoadingFontFacesIsDirty, mDelayedLoadCheck, mOwner, mLoaders,
          cancelled, userFontSetDirty, families, entryFamily, inSet,
          faceStatus, faceFamily, faceHasSrc, faceDescriptors, entryAttributes,
          faceEntry, readyPending, notifs, queue, postTraversal, lastOp,
          matched, built>>

\* The current state as one record.
St ==
  [mNonRuleFaces |-> mNonRuleFaces, mStatus |-> mStatus,
   mNonRuleFacesDirty |-> mNonRuleFacesDirty,
   mHasLoadingFontFaces |-> mHasLoadingFontFaces,
   mHasLoadingFontFacesIsDirty |-> mHasLoadingFontFacesIsDirty,
   mDelayedLoadCheck |-> mDelayedLoadCheck, mOwner |-> mOwner,
   mLoaders |-> mLoaders, cancelled |-> cancelled,
   userFontSetDirty |-> userFontSetDirty, families |-> families,
   entryFamily |-> entryFamily, inSet |-> inSet, faceStatus |-> faceStatus,
   faceFamily |-> faceFamily, faceHasSrc |-> faceHasSrc,
   faceDescriptors |-> faceDescriptors, entryAttributes |-> entryAttributes,
   faceEntry |-> faceEntry, readyPending |-> readyPending, notifs |-> notifs,
   queue |-> queue, postTraversal |-> postTraversal]

\* ---- sequence helpers ---------------------------------------------------
Range(seq) == {seq[i] : i \in 1..Len(seq)}

Contains(seq, x) == x \in Range(seq)

RemoveElement(seq, x) == SelectSeq(seq, LAMBDA y : y # x)

\* Remove the element at index i.
RemoveElementAt(seq, i) == SubSeq(seq, 1, i - 1) \o SubSeq(seq, i + 1, Len(seq))

\* Index of the first occurrence of x in seq (x occurs in seq).
IndexOf(seq, x) == CHOOSE i \in 1..Len(seq) : seq[i] = x /\ \A j \in 1..(i - 1) : seq[j] # x

\* Keep the last two elements of a notification log.
LastTwo(seq) == IF Len(seq) <= 2 THEN seq ELSE SubSeq(seq, Len(seq) - 1, Len(seq))

\* ---- the owner (FontFaceSet) and the owning thread ------------------------
ReadyPromiseIsPending(s) == s.mOwner /\ s.readyPending

DispatchLoadingEventAndReplaceReadyPromise(s) ==
  [s EXCEPT !.readyPending = TRUE,
            !.notifs = LastTwo(Append(s.notifs, "loading"))]

MaybeResolve(s) ==
  [s EXCEPT !.readyPending = FALSE,
            !.notifs = LastTwo(Append(s.notifs, "loadingdone"))]

DispatchToOwningThread(s, task) == [s EXCEPT !.queue = Append(s.queue, task)]

OnLoadingStarted(s) ==
  IF s.mOwner THEN DispatchLoadingEventAndReplaceReadyPromise(s) ELSE s

OnLoadingFinished(s) == IF s.mOwner THEN MaybeResolve(s) ELSE s

\* ---- has-loading cache --------------------------------------------------
AnyRecordLoading(s) ==
  \E i \in 1..Len(s.mNonRuleFaces) : s.faceStatus[s.mNonRuleFaces[i]] = "Loading"

\* Variant: the scan stops after the first record.
UpdateHasLoadingFontFaces_FirstOnly(s) ==
  [s EXCEPT !.mHasLoadingFontFacesIsDirty = FALSE,
            !.mHasLoadingFontFaces =
               (Len(s.mNonRuleFaces) > 0
                  /\ s.faceStatus[s.mNonRuleFaces[1]] = "Loading")]

\* Variant: the scan counts every face that is not Loaded, so a face in Error
\* counts as loading.
UpdateHasLoadingFontFaces_CountsError(s) ==
  [s EXCEPT !.mHasLoadingFontFacesIsDirty = FALSE,
            !.mHasLoadingFontFaces =
               (\E i \in 1..Len(s.mNonRuleFaces) :
                  s.faceStatus[s.mNonRuleFaces[i]] \in {"Loading", "Error"})]

UpdateHasLoadingFontFaces(s) ==
  [s EXCEPT !.mHasLoadingFontFacesIsDirty = FALSE,
            !.mHasLoadingFontFaces = AnyRecordLoading(s)]

\* HasLoadingFontFaces refreshes the cache as a side effect; the state after
\* the call is HasLoadingState(s) and the value returned is its cached flag.
HasLoadingState(s) ==
  IF s.mHasLoadingFontFacesIsDirty THEN UpdateHasLoadingFontFaces(s) ELSE s

HasLoadingFontFaces(s) == HasLoadingState(s).mHasLoadingFontFaces

\* ---- aggregate status ---------------------------------------------------
\* Variant: the owner is notified from whatever thread runs the check.
CheckLoadingStarted_AlwaysInline(s, onOwner) ==
  LET s1 == HasLoadingState(s) IN
  IF ~s1.mHasLoadingFontFaces THEN s1
  ELSE IF s1.mStatus = "Loading" THEN s1
  ELSE OnLoadingStarted([s1 EXCEPT !.mStatus = "Loading"])

CheckLoadingStarted(s, onOwner) ==
  LET s1 == HasLoadingState(s) IN
  IF ~s1.mHasLoadingFontFaces THEN s1
  ELSE IF s1.mStatus = "Loading" THEN s1
  ELSE LET s2 == [s1 EXCEPT !.mStatus = "Loading"] IN
       IF onOwner THEN OnLoadingStarted(s2)
       ELSE DispatchToOwningThread(s2, "OnLoadingStarted")

\* Variant: the check for faces that are still loading is missing.
CheckLoadingFinished_NoPendingLoadsCheck(s, onOwner) ==
  IF s.mDelayedLoadCheck THEN s
  ELSE IF ~ReadyPromiseIsPending(s) THEN s
  ELSE LET s2 == [s EXCEPT !.mStatus = "Loaded"] IN
       IF onOwner THEN OnLoadingFinished(s2)
       ELSE DispatchToOwningThread(s2, "OnLoadingFinished")

CheckLoadingFinished(s, onOwner) ==
  IF s.mDelayedLoadCheck THEN s
  ELSE IF ~ReadyPromiseIsPending(s) THEN s
  ELSE LET s1 == HasLoadingState(s) IN
       IF s1.mHasLoadingFontFaces THEN s1
       ELSE LET s2 == [s1 EXCEPT !.mStatus = "Loaded"] IN
            IF onOwner THEN OnLoadingFinished(s2)
            ELSE DispatchToOwningThread(s2, "OnLoadingFinished")

CheckLoadingFinishedAfterDelay(s, onOwner) ==
  CheckLoadingFinished([s EXCEPT !.mDelayedLoadCheck = FALSE], onOwner)

DispatchCheckLoadingFinishedAfterDelay(s, inTraversal) ==
  IF inTraversal THEN [s EXCEPT !.postTraversal = TRUE]
  ELSE DispatchToOwningThread(s, "CheckLoadingFinishedAfterDelay")

\* Variant: a finished face runs the finish check at once instead of going
\* around the event loop.
OnFontFaceStatusChanged_NoDelay(s, f, onOwner, inTraversal) ==
  LET s1 == [s EXCEPT !.mHasLoadingFontFacesIsDirty = TRUE] IN
  IF s1.faceStatus[f] = "Loading" THEN CheckLoadingStarted(s1, onOwner)
  ELSE CheckLoadingFinished(s1, onOwner)

\* Variant: every face that finishes schedules a delayed check, whether one
\* is already scheduled or not.
OnFontFaceStatusChanged_AlwaysDispatches(s, f, onOwner, inTraversal) ==
  LET s1 == [s EXCEPT !.mHasLoadingFontFacesIsDirty = TRUE] IN
  IF s1.faceStatus[f] = "Loading" THEN CheckLoadingStarted(s1, onOwner)
  ELSE DispatchCheckLoadingFinishedAfterDelay(
         [s1 EXCEPT !.mDelayedLoadCheck = TRUE], inTraversal)

OnFontFaceStatusChanged(s, f, onOwner, inTraversal) ==
  LET s1 == [s EXCEPT !.mHasLoadingFontFacesIsDirty = TRUE] IN
  IF s1.faceStatus[f] = "Loading" THEN CheckLoadingStarted(s1, onOwner)
  ELSE IF ~s1.mDelayedLoadCheck
       THEN DispatchCheckLoadingFinishedAfterDelay(
              [s1 EXCEPT !.mDelayedLoadCheck = TRUE], inTraversal)
       ELSE s1

\* ---- registry (gfxUserFontSet) ---------------------------------------------
LookupFamily(s, name) == IF name \in FamilyNames THEN s.families[name] ELSE <<>>

RemoveFontEntry(s, name, e) ==
  IF name \in FamilyNames
  THEN [s EXCEPT !.families[name] = RemoveElement(s.families[name], e)]
  ELSE s

\* Insert an entry into the named family, after removing any earlier
\* occurrence; an entry without a family tag takes the family's name.
AddUserFontEntry(s, name, e) ==
  [s EXCEPT !.families[name] = Append(RemoveElement(s.families[name], e), e),
            !.entryFamily[e] =
               IF s.entryFamily[e] = EmptyName THEN name ELSE s.entryFamily[e]]

\* A new entry is identified by the face it was first built for.
FindOrCreateUserFontEntry(s, name, f, attrs) ==
  [st |-> [s EXCEPT !.entryFamily[f] = name,
                    !.entryAttributes[f] = attrs,
                    !.families[name] = Append(RemoveElement(s.families[name], f), f)],
   entry |-> f]

UpdateAttributes(s, e, attrs) == [s EXCEPT !.entryAttributes[e] = attrs]

\* Variant: an unspecified weight sets no flag.
GetWeightRangeForDescriptor_NoFlag(aVal, aRangeFlags) ==
  [range |-> IF aVal = Nothing THEN <<NORMAL, NORMAL>> ELSE aVal[1],
   rangeFlags |-> aRangeFlags]

\* The three functions return the range and leave the flags in rangeFlags.
GetWeightRangeForDescriptor(aVal, aRangeFlags) ==
  IF aVal = Nothing
  THEN [range |-> <<NORMAL, NORMAL>>, rangeFlags |-> aRangeFlags \cup {"eAutoWeight"}]
  ELSE [range |-> aVal[1], rangeFlags |-> aRangeFlags]

GetStyleRangeForDescriptor(aVal, aRangeFlags) ==
  IF aVal = Nothing
  THEN [range |-> <<SLANT_NORMAL, SLANT_NORMAL>>,
        rangeFlags |-> aRangeFlags \cup {"eAutoSlantStyle"}]
  ELSE [range |-> IF aVal[1].tag = "Normal" THEN <<SLANT_NORMAL, SLANT_NORMAL>>
                  ELSE IF aVal[1].tag = "Italic" THEN <<SLANT_ITALIC, SLANT_ITALIC>>
                  ELSE <<aVal[1].min, aVal[1].max>>,
        rangeFlags |-> aRangeFlags]

GetStretchRangeForDescriptor(aVal, aRangeFlags) ==
  IF aVal = Nothing
  THEN [range |-> <<STRETCH_NORMAL, STRETCH_NORMAL>>,
        rangeFlags |-> aRangeFlags \cup {"eAutoStretch"}]
  ELSE [range |-> aVal[1], rangeFlags |-> aRangeFlags]

\* The attributes the resolver computes from the descriptor of face f.
DescriptorAttributes(s, f) ==
  LET weight == GetWeightRangeForDescriptor(s.faceDescriptors[f].weight, eNoFlags)
      stretch == GetStretchRangeForDescriptor(s.faceDescriptors[f].stretch,
                                              weight.rangeFlags)
      italicStyle == GetStyleRangeForDescriptor(s.faceDescriptors[f].style,
                                                stretch.rangeFlags)
  IN [weight |-> weight.range, stretch |-> stretch.range,
      style |-> italicStyle.range, rangeFlags |-> italicStyle.rangeFlags,
      unicodeRanges |-> s.faceDescriptors[f].unicodeRange]

\* Variant: when the family name has changed the entry stays in its old
\* family; only the family tag is cleared.
FindOrCreateUserFontEntryFromFontFace_KeepsOldFamily(s, name, f) ==
  LET existingEntry == s.faceEntry[f]
      attrs == DescriptorAttributes(s, f)
  IN
  IF existingEntry # None
  THEN LET s1 == UpdateAttributes(s, existingEntry, attrs) IN
       IF s1.entryFamily[existingEntry] # EmptyName /\ s1.entryFamily[existingEntry] # name
       THEN [st |-> [s1 EXCEPT !.entryFamily[existingEntry] = EmptyName],
             entry |-> existingEntry]
       ELSE [st |-> s1, entry |-> existingEntry]
  ELSE IF ~s.faceHasSrc[f] THEN [st |-> s, entry |-> None]
  ELSE FindOrCreateUserFontEntry(s, name, f, attrs)

\* Variant: the source array is looked at before the entry the face holds.
FindOrCreateUserFontEntryFromFontFace_BuildsSourcesFirst(s, name, f) ==
  LET existingEntry == s.faceEntry[f]
      attrs == DescriptorAttributes(s, f)
  IN
  IF ~s.faceHasSrc[f] THEN [st |-> s, entry |-> None]
  ELSE IF existingEntry # None
  THEN LET s1 == UpdateAttributes(s, existingEntry, attrs) IN
       IF s1.entryFamily[existingEntry] # EmptyName /\ s1.entryFamily[existingEntry] # name
       THEN [st |-> [RemoveFontEntry(s1, s1.entryFamily[existingEntry], existingEntry)
                       EXCEPT !.entryFamily[existingEntry] = EmptyName],
             entry |-> existingEntry]
       ELSE [st |-> s1, entry |-> existingEntry]
  ELSE FindOrCreateUserFontEntry(s, name, f, attrs)

FindOrCreateUserFontEntryFromFontFace(s, name, f) ==
  LET existingEntry == s.faceEntry[f]
      attrs == DescriptorAttributes(s, f)
  IN
  IF existingEntry # None
  THEN LET s1 == UpdateAttributes(s, existingEntry, attrs) IN
       IF s1.entryFamily[existingEntry] # EmptyName /\ s1.entryFamily[existingEntry] # name
       THEN [st |-> [RemoveFontEntry(s1, s1.entryFamily[existingEntry], existingEntry)
                       EXCEPT !.entryFamily[existingEntry] = EmptyName],
             entry |-> existingEntry]
       ELSE [st |-> s1, entry |-> existingEntry]
  ELSE IF ~s.faceHasSrc[f] THEN [st |-> s, entry |-> None]
  ELSE FindOrCreateUserFontEntry(s, name, f, attrs)

\* The overload that takes the family name from the face.
FindOrCreateUserFontEntryFromFontFace1(s, f) ==
  IF s.faceFamily[f] = NoFamily THEN [st |-> s, entry |-> None]
  ELSE FindOrCreateUserFontEntryFromFontFace(s, s.faceFamily[f], f)

InsertNonRuleFontFace(s, f) ==
  LET fontFamily == s.faceFamily[f] IN
  IF fontFamily = NoFamily THEN s
  ELSE IF s.faceEntry[f] = None
       THEN LET r == FindOrCreateUserFontEntryFromFontFace(s, fontFamily, f) IN
            IF r.entry = None THEN r.st
            ELSE AddUserFontEntry([r.st EXCEPT !.faceEntry[f] = r.entry],
                                  fontFamily, r.entry)
       ELSE AddUserFontEntry(s, fontFamily, s.faceEntry[f])

RECURSIVE InsertNonRuleFontFaces(_, _)
InsertNonRuleFontFaces(s, i) ==
  IF i > Len(s.mNonRuleFaces) THEN s
  ELSE InsertNonRuleFontFaces(InsertNonRuleFontFace(s, s.mNonRuleFaces[i]), i + 1)

MarkUserFontSetDirty(s) == [s EXCEPT !.userFontSetDirty = TRUE]

\* Fold a pending rebuild into the registry: detach every family's entries
\* and re-insert the faces of the record list in order.
FlushUserFontSet(s) ==
  IF ~s.userFontSetDirty THEN s
  ELSE InsertNonRuleFontFaces(
         [s EXCEPT !.userFontSetDirty = FALSE,
                   !.mNonRuleFacesDirty = FALSE,
                   !.families = [n \in FamilyNames |-> <<>>]], 1)

\* ---- matching ---------------------------------------------------------------
\* Variant: the shorthand is parsed before the URL data is looked for.
ParseFontShorthandForMatching_ParsesFirst(aFont, url) ==
  IF ~aFont.valid THEN [err |-> "SyntaxError"]
  ELSE IF ~url THEN [err |-> "InvalidStateError"]
  ELSE [err |-> "none"]

\* url is whether GetURLExtraData() returns an object.
ParseFontShorthandForMatching(aFont, url) ==
  IF ~url THEN [err |-> "InvalidStateError"]
  ELSE IF ~aFont.valid THEN [err |-> "SyntaxError"]
  ELSE [err |-> "none"]

IsHighSurrogate(u) == 55296 <= u /\ u <= 56319

IsLowSurrogate(u) == 56320 <= u /\ u <= 57343

\* UTF16CharEnumerator::NextChar at index i: the code point read and the index
\* after it; an unpaired surrogate reads as U+FFFD.
NextChar(text, i) ==
  LET u == text[i] IN
  IF IsHighSurrogate(u) /\ i + 1 <= Len(text) /\ IsLowSurrogate(text[i + 1])
  THEN [c |-> 65536 + (u - 55296) * 1024 + (text[i + 1] - 56320), next |-> i + 2]
  ELSE IF IsHighSurrogate(u) \/ IsLowSurrogate(u) THEN [c |-> 65533, next |-> i + 1]
  ELSE [c |-> u, next |-> i + 1]

CharacterInUnicodeRange(s, e, c) == c \in s.entryAttributes[e].unicodeRanges

RECURSIVE HasAnyCharacterFrom(_, _, _, _)
HasAnyCharacterFrom(s, e, aInput, p) ==
  IF p > Len(aInput) THEN FALSE
  ELSE LET n == NextChar(aInput, p) IN
       IF CharacterInUnicodeRange(s, e, n.c) THEN TRUE
       ELSE HasAnyCharacterFrom(s, e, aInput, n.next)

\* Variant: only the first character of the text is tested.
HasAnyCharacterInUnicodeRange_FirstOnly(s, e, aInput) ==
  aInput # <<>> /\ CharacterInUnicodeRange(s, e, NextChar(aInput, 1).c)

HasAnyCharacterInUnicodeRange(s, e, aInput) == HasAnyCharacterFrom(s, e, aInput, 1)

IsFamilyName(name) == name # Generic

\* The entries of a family whose weight range holds the requested weight.
FindAllFontsForStyle(s, name, weight) ==
  SelectSeq(LookupFamily(s, name),
            LAMBDA e : s.entryAttributes[e].weight[1] <= weight
                         /\ weight <= s.entryAttributes[e].weight[2])

\* The faces that hold entry e.
FindFontFaceOwners(s, e) == {f \in Faces : s.faceEntry[f] = e}

\* The faces collected by the first pass over the families of the shorthand.
MatchingFaces(s, aFont, aText) ==
  UNION {FindFontFaceOwners(s, e) :
           e \in {x \in UNION {Range(FindAllFontsForStyle(s, n, aFont.weight)) :
                                 n \in {m \in Range(aFont.families) : IsFamilyName(m)}} :
                    HasAnyCharacterInUnicodeRange(s, x, aText)}}

\* Variant: the second pass lists the matching faces without looking at the
\* record list.
FindMatchingFontFacesIn_IgnoresRecords(s, aMatchingFaces, aFontFaces) ==
  aFontFaces \o SelectSeq([i \in 1..(NumNonRule + 1) |-> i - 1],
                          LAMBDA f : f \in aMatchingFaces)

\* Second pass: the records whose face is in the given set, in record order.
FindMatchingFontFacesIn(s, aMatchingFaces, aFontFaces) ==
  aFontFaces \o SelectSeq(s.mNonRuleFaces, LAMBDA f : f \in aMatchingFaces)

\* Variant: there is no second pass; the owners are appended family by
\* family as the first pass finds them.
RECURSIVE OwnersInFamilyOrder(_, _, _, _)
OwnersInFamilyOrder(s, aFont, aText, i) ==
  IF i > Len(aFont.families) THEN <<>>
  ELSE LET one == [aFont EXCEPT !.families = <<aFont.families[i]>>] IN
       FindMatchingFontFacesIn(s, MatchingFaces(s, one, aText), <<>>)
         \o OwnersInFamilyOrder(s, aFont, aText, i + 1)

FindMatchingFontFaces_FamilyOrder(s, aFont, aText, url, aFontFaces) ==
  LET parsed == ParseFontShorthandForMatching(aFont, url) IN
  IF parsed.err # "none" THEN [faces |-> aFontFaces, err |-> parsed.err]
  ELSE [faces |-> aFontFaces \o OwnersInFamilyOrder(s, aFont, aText, 1),
        err |-> "none"]

FindMatchingFontFaces(s, aFont, aText, url, aFontFaces) ==
  LET parsed == ParseFontShorthandForMatching(aFont, url) IN
  IF parsed.err # "none" THEN [faces |-> aFontFaces, err |-> parsed.err]
  ELSE LET matchingFaces == MatchingFaces(s, aFont, aText) IN
       IF matchingFaces = {} THEN [faces |-> aFontFaces, err |-> "none"]
       ELSE [faces |-> FindMatchingFontFacesIn(s, matchingFaces, aFontFaces),
             err |-> "none"]

\* ---- FontFaceImpl ---------------------------------------------------------
IsInFontFaceSet(s, f) == f \in s.inSet

HasRule(f) == f \in RuleFaces

AddFontFaceSet(s, f) == [s EXCEPT !.inSet = s.inSet \cup {f}]

RemoveFontFaceSet(s, f) == [s EXCEPT !.inSet = s.inSet \ {f}]

RECURSIVE RemoveFontFaceSetAll(_, _)
RemoveFontFaceSetAll(s, i) ==
  IF i > Len(s.mNonRuleFaces) THEN s
  ELSE RemoveFontFaceSetAll(RemoveFontFaceSet(s, s.mNonRuleFaces[i]), i + 1)

\* ---- public operations ------------------------------------------------------
Status(s) == LET s1 == FlushUserFontSet(s) IN [st |-> s1, ret |-> s1.mStatus]

\* Variant: the HasRule test is missing.
Add_NoRuleCheck(s, f, onOwner) ==
  LET s1 == FlushUserFontSet(s) IN
  IF IsInFontFaceSet(s1, f) THEN [st |-> s1, ret |-> FALSE, err |-> "none"]
  ELSE LET s2 == AddFontFaceSet(s1, f)
           s3 == [s2 EXCEPT !.mNonRuleFaces = Append(s2.mNonRuleFaces, f),
                            !.mNonRuleFacesDirty = TRUE]
           s4 == [MarkUserFontSetDirty(s3) EXCEPT !.mHasLoadingFontFacesIsDirty = TRUE]
       IN [st |-> CheckLoadingStarted(s4, onOwner), ret |-> TRUE, err |-> "none"]

\* Variant: membership is tested against the last record only.
Add_ChecksLastRecordOnly(s, f, onOwner) ==
  LET s1 == FlushUserFontSet(s) IN
  IF Len(s1.mNonRuleFaces) > 0 /\ s1.mNonRuleFaces[Len(s1.mNonRuleFaces)] = f
  THEN [st |-> s1, ret |-> FALSE, err |-> "none"]
  ELSE IF HasRule(f)
       THEN [st |-> s1, ret |-> FALSE, err |-> "InvalidModificationError"]
  ELSE LET s2 == AddFontFaceSet(s1, f)
           s3 == [s2 EXCEPT !.mNonRuleFaces = Append(s2.mNonRuleFaces, f),
                            !.mNonRuleFacesDirty = TRUE]
           s4 == [MarkUserFontSetDirty(s3) EXCEPT !.mHasLoadingFontFacesIsDirty = TRUE]
       IN [st |-> CheckLoadingStarted(s4, onOwner), ret |-> TRUE, err |-> "none"]

Add(s, f, onOwner) ==
  LET s1 == FlushUserFontSet(s) IN
  IF IsInFontFaceSet(s1, f) THEN [st |-> s1, ret |-> FALSE, err |-> "none"]
  ELSE IF HasRule(f)
       THEN [st |-> s1, ret |-> FALSE, err |-> "InvalidModificationError"]
  ELSE LET s2 == AddFontFaceSet(s1, f)
           s3 == [s2 EXCEPT !.mNonRuleFaces = Append(s2.mNonRuleFaces, f),
                            !.mNonRuleFacesDirty = TRUE]
           s4 == [MarkUserFontSetDirty(s3) EXCEPT !.mHasLoadingFontFacesIsDirty = TRUE]
       IN [st |-> CheckLoadingStarted(s4, onOwner), ret |-> TRUE, err |-> "none"]

\* Variant: the IsEmpty early return is missing.
Clear_NoEmptyCheck(s, onOwner) ==
  LET s1 == FlushUserFontSet(s)
      s2 == RemoveFontFaceSetAll(s1, 1)
      s3 == [s2 EXCEPT !.mNonRuleFaces = <<>>, !.mNonRuleFacesDirty = TRUE]
      s4 == [MarkUserFontSetDirty(s3) EXCEPT !.mHasLoadingFontFacesIsDirty = TRUE]
  IN CheckLoadingFinished(s4, onOwner)

Clear(s, onOwner) ==
  LET s1 == FlushUserFontSet(s) IN
  IF Len(s1.mNonRuleFaces) = 0 THEN s1
  ELSE LET s2 == RemoveFontFaceSetAll(s1, 1)
           s3 == [s2 EXCEPT !.mNonRuleFaces = <<>>, !.mNonRuleFacesDirty = TRUE]
           s4 == [MarkUserFontSetDirty(s3) EXCEPT !.mHasLoadingFontFacesIsDirty = TRUE]
       IN CheckLoadingFinished(s4, onOwner)

\* Variant: the record removed is the first one, not the one found.
Delete_RemovesFirstRecord(s, f, onOwner) ==
  LET s1 == FlushUserFontSet(s) IN
  IF HasRule(f) THEN [st |-> s1, ret |-> FALSE]
  ELSE IF ~Contains(s1.mNonRuleFaces, f) THEN [st |-> s1, ret |-> FALSE]
  ELSE LET s2 == [s1 EXCEPT !.mNonRuleFaces = RemoveElementAt(s1.mNonRuleFaces, 1)]
           s3 == [RemoveFontFaceSet(s2, f) EXCEPT !.mNonRuleFacesDirty = TRUE]
           s4 == [MarkUserFontSetDirty(s3) EXCEPT !.mHasLoadingFontFacesIsDirty = TRUE]
       IN [st |-> CheckLoadingFinished(s4, onOwner), ret |-> TRUE]

\* Variant: the set is marked dirty before the record is looked for.
Delete_MarksDirtyFirst(s, f, onOwner) ==
  LET s0 == FlushUserFontSet(s)
      s1 == [MarkUserFontSetDirty(s0) EXCEPT !.mNonRuleFacesDirty = TRUE,
                                             !.mHasLoadingFontFacesIsDirty = TRUE]
  IN
  IF HasRule(f) THEN [st |-> s1, ret |-> FALSE]
  ELSE IF ~Contains(s1.mNonRuleFaces, f) THEN [st |-> s1, ret |-> FALSE]
  ELSE LET s2 == [s1 EXCEPT !.mNonRuleFaces =
                      RemoveElementAt(s1.mNonRuleFaces, IndexOf(s1.mNonRuleFaces, f))]
           s3 == RemoveFontFaceSet(s2, f)
       IN [st |-> CheckLoadingFinished(s3, onOwner), ret |-> TRUE]

Delete(s, f, onOwner) ==
  LET s1 == FlushUserFontSet(s) IN
  IF HasRule(f) THEN [st |-> s1, ret |-> FALSE]
  ELSE IF ~Contains(s1.mNonRuleFaces, f) THEN [st |-> s1, ret |-> FALSE]
  ELSE LET s2 == [s1 EXCEPT !.mNonRuleFaces =
                      RemoveElementAt(s1.mNonRuleFaces, IndexOf(s1.mNonRuleFaces, f))]
           s3 == [RemoveFontFaceSet(s2, f) EXCEPT !.mNonRuleFacesDirty = TRUE]
           s4 == [MarkUserFontSetDirty(s3) EXCEPT !.mHasLoadingFontFacesIsDirty = TRUE]
       IN [st |-> CheckLoadingFinished(s4, onOwner), ret |-> TRUE]

RemoveLoader(s, l) == [s EXCEPT !.mLoaders = s.mLoaders \ {l}]

\* Variant: the loaders are neither cancelled nor dropped.
BeforeOwnerReleased_LoadersKept(s) ==
  [s EXCEPT !.mNonRuleFaces = <<>>,
            !.families = [n \in FamilyNames |-> <<>>]]

\* Destroy up to the last statement: every loader cancelled, the loader
\* table, the record list and the registry cleared.
BeforeOwnerReleased(s) ==
  LET s1 == [s EXCEPT !.cancelled = s.cancelled \cup s.mLoaders]
      s2 == [s1 EXCEPT !.mLoaders = {}]
      s3 == [s2 EXCEPT !.mNonRuleFaces = <<>>]
  IN [s3 EXCEPT !.families = [n \in FamilyNames |-> <<>>]]

Destroy(s) == [BeforeOwnerReleased(s) EXCEPT !.mOwner = FALSE]


\* A descriptor of face f was set: a face that holds an entry has it
\* resolved again, keeps what the resolver returns and asks the set it is in
\* for a rebuild.
DescriptorUpdated(s, f) ==
  IF s.faceEntry[f] = None THEN s
  ELSE LET r == FindOrCreateUserFontEntryFromFontFace1(s, f)
           s1 == [r.st EXCEPT !.faceEntry[f] = r.entry]
       IN IF IsInFontFaceSet(s1, f) THEN MarkUserFontSetDirty(s1) ELSE s1

SetFamilyName(s, f, name) ==
  DescriptorUpdated([s EXCEPT !.faceFamily[f] = name], f)

SetFontWeight(s, f, weight) ==
  DescriptorUpdated([s EXCEPT !.faceDescriptors[f].weight = weight], f)

SetFontStretch(s, f, stretch) ==
  DescriptorUpdated([s EXCEPT !.faceDescriptors[f].stretch = stretch], f)

SetFontStyle(s, f, style) ==
  DescriptorUpdated([s EXCEPT !.faceDescriptors[f].style = style], f)

\* A face changes its load status and tells the set it is in.
SetStatus(s, f, status, onOwner, inTraversal) ==
  LET s1 == [s EXCEPT !.faceStatus[f] = status] IN
  IF IsInFontFaceSet(s1, f)
  THEN OnFontFaceStatusChanged(s1, f, onOwner, inTraversal)
  ELSE s1

\* ---- the source array (src descriptor -> gfxFontFaceSrc list) --------------
\* Strings are sequences of ASCII codes.  The names the format() string of a
\* source is compared with:
StrWoff == <<119, 111, 102, 102>>
  \* "woff"
StrWoff2 == <<119, 111, 102, 102, 50>>
  \* "woff2"
StrOpentype == <<111, 112, 101, 110, 116, 121, 112, 101>>
  \* "opentype"
StrTruetype == <<116, 114, 117, 101, 116, 121, 112, 101>>
  \* "truetype"
StrTruetypeAat == <<116, 114, 117, 101, 116, 121, 112, 101, 45, 97, 97, 116>>
  \* "truetype-aat"
StrEmbeddedOpentype == <<101, 109, 98, 101, 100, 100, 101, 100, 45, 111, 112, 101, 110, 116, 121, 112, 101>>
  \* "embedded-opentype"
StrSvg == <<115, 118, 103>>
  \* "svg"
StrWoffVariations == <<119, 111, 102, 102, 45, 118, 97, 114, 105, 97, 116, 105, 111, 110, 115>>
  \* "woff-variations"
StrWoff2Variations == <<119, 111, 102, 102, 50, 45, 118, 97, 114, 105, 97, 116, 105, 111, 110, 115>>
  \* "woff2-variations"
StrOpentypeVariations == <<111, 112, 101, 110, 116, 121, 112, 101, 45, 118, 97, 114, 105, 97, 116, 105, 111, 110, 115>>
  \* "opentype-variations"
StrTruetypeVariations == <<116, 114, 117, 101, 116, 121, 112, 101, 45, 118, 97, 114, 105, 97, 116, 105, 111, 110, 115>>
  \* "truetype-variations"

\* Format strings a style sheet may carry: "woff", "WOFF", "Woff2-Variations"
\* and "bogus".
HintStrings ==
  {StrWoff, <<87, 79, 70, 70>>, <<87, 111, 102, 102, 50, 45, 86, 97, 114, 105, 97, 116, 105, 111, 110, 115>>, <<98, 111, 103, 117, 115>>}

\* StyleFontFaceSourceFormatKeyword values a format() keyword may carry.
HintKeywords == {"Woff", "Woff2"}

NullURI == "null"
NoString == <<>>

\* One StyleFontFaceSourceListComponent: the tag and the payload of that tag
\* (the other payload fields are empty).
Component(tag, name, uri, keyword, str, tech) ==
  [tag |-> tag, name |-> name, uri |-> uri, keyword |-> keyword,
   str |-> str, tech |-> tech]

LocalComponent(name) == Component("Local", name, "", "", NoString, "")
UrlComponent(uri) == Component("Url", "", uri, "", NoString, "")
FormatHintKeywordComponent(k) == Component("FormatHintKeyword", "", "", k, NoString, "")
FormatHintStringComponent(str) == Component("FormatHintString", "", "", "", str, "")
TechFlagsComponent(flags) == Component("TechFlags", "", "", "", NoString, flags)

Components ==
  {LocalComponent("l1"), UrlComponent("u1"), UrlComponent(NullURI),
   TechFlagsComponent("Variations")}
  \cup {FormatHintKeywordComponent(k) : k \in HintKeywords}
  \cup {FormatHintStringComponent(str) : str \in HintStrings}

IsFormatHint(c) == c.tag \in {"FormatHintKeyword", "FormatHintString"}

\* What the src descriptor parser hands out: a format hint comes right after
\* a URL, a tech() right after a URL or after the format hint of a URL.
WellFormed(list) ==
  \A i \in 1..Len(list) :
    /\ IsFormatHint(list[i]) => (i > 1 /\ list[i - 1].tag = "Url")
    /\ list[i].tag = "TechFlags" =>
         /\ i > 1
         /\ \/ list[i - 1].tag = "Url"
            \/ IsFormatHint(list[i - 1]) /\ i > 2 /\ list[i - 2].tag = "Url"

SourceLists ==
  {list \in UNION {[1..n -> Components] : n \in 0..MaxTokens} : WellFormed(list)}

\* One gfxFontFaceSrc.
FontFaceSrc(type, localName, uri, formatHint, techFlags) ==
  [mSourceType |-> type, mLocalName |-> localName, mURI |-> uri,
   mFormatHint |-> formatHint, mTechFlags |-> techFlags]

\* An appended element no case of the switch has filled in.
UnsetSrc == FontFaceSrc("Unset", "", NullURI, "None", "Empty")

ToLowerASCII(c) == IF c \in UpperAZ THEN c + 32 ELSE c

\* nsTSubstring::LowerCaseEqualsASCII: the string, lower-cased, is the literal.
LowerCaseEqualsASCII(valueString, literal) ==
  /\ Len(valueString) = Len(literal)
  /\ \A i \in 1..Len(literal) : ToLowerASCII(valueString[i]) = literal[i]

\* Variant: the string is compared as written.
FormatHintFromString_CaseSensitive(valueString, variations) ==
  IF valueString = StrWoff THEN "Woff"
  ELSE IF valueString = StrWoff2 THEN "Woff2"
  ELSE IF valueString = StrOpentype THEN "Opentype"
  ELSE IF valueString = StrTruetype THEN "Truetype"
  ELSE IF valueString = StrTruetypeAat THEN "Truetype"
  ELSE IF valueString = StrEmbeddedOpentype THEN "EmbeddedOpentype"
  ELSE IF valueString = StrSvg THEN "Svg"
  ELSE IF variations
  THEN IF valueString = StrWoffVariations THEN "Woff"
       ELSE IF valueString = StrWoff2Variations THEN "Woff2"
       ELSE IF valueString = StrOpentypeVariations THEN "Opentype"
       ELSE IF valueString = StrTruetypeVariations THEN "Truetype"
       ELSE "Unknown"
  ELSE "Unknown"

\* The format a format() string stands for; variations is the pref
\* layout.css.font-variations.enabled.
FormatHintFromString(valueString, variations) ==
  IF LowerCaseEqualsASCII(valueString, StrWoff) THEN "Woff"
  ELSE IF LowerCaseEqualsASCII(valueString, StrWoff2) THEN "Woff2"
  ELSE IF LowerCaseEqualsASCII(valueString, StrOpentype) THEN "Opentype"
  ELSE IF LowerCaseEqualsASCII(valueString, StrTruetype) THEN "Truetype"
  ELSE IF LowerCaseEqualsASCII(valueString, StrTruetypeAat) THEN "Truetype"
  ELSE IF LowerCaseEqualsASCII(valueString, StrEmbeddedOpentype) THEN "EmbeddedOpentype"
  ELSE IF LowerCaseEqualsASCII(valueString, StrSvg) THEN "Svg"
  ELSE IF variations
  THEN IF LowerCaseEqualsASCII(valueString, StrWoffVariations) THEN "Woff"
       ELSE IF LowerCaseEqualsASCII(valueString, StrWoff2Variations) THEN "Woff2"
       ELSE IF LowerCaseEqualsASCII(valueString, StrOpentypeVariations) THEN "Opentype"
       ELSE IF LowerCaseEqualsASCII(valueString, StrTruetypeVariations) THEN "Truetype"
       ELSE "Unknown"
  ELSE "Unknown"

\* Variant: the format hint after a URL is looked at but left in the list.
UrlSource_HintNotConsumed(list, i, variations) ==
  LET hint == IF i + 1 <= Len(list) /\ list[i + 1].tag = "FormatHintKeyword"
              THEN list[i + 1].keyword
              ELSE IF i + 1 <= Len(list) /\ list[i + 1].tag = "FormatHintString"
              THEN FormatHintFromString(list[i + 1].str, variations)
              ELSE "None"
      hasTech == i + 1 <= Len(list) /\ list[i + 1].tag = "TechFlags"
  IN [face |-> FontFaceSrc("URL", "", list[i].uri, hint,
                           IF hasTech THEN list[i + 1].tech ELSE "Empty"),
      i |-> IF hasTech THEN i + 1 ELSE i]

\* The Url case up to the tech() check: the source for the URL at index i and
\* the index of the last component consumed for it.
UrlSource(list, i, variations) ==
  LET hasKeyword == i + 1 <= Len(list) /\ list[i + 1].tag = "FormatHintKeyword"
      hasString == i + 1 <= Len(list) /\ list[i + 1].tag = "FormatHintString"
      hint == IF hasKeyword THEN list[i + 1].keyword
              ELSE IF hasString THEN FormatHintFromString(list[i + 1].str, variations)
              ELSE "None"
      i1 == IF hasKeyword \/ hasString THEN i + 1 ELSE i
      hasTech == i1 + 1 <= Len(list) /\ list[i1 + 1].tag = "TechFlags"
  IN [face |-> FontFaceSrc("URL", "", list[i].uri, hint,
                           IF hasTech THEN list[i1 + 1].tech ELSE "Empty"),
      i |-> IF hasTech THEN i1 + 1 ELSE i1]

\* Variant: a URL source without a URI stays in the array.
AfterComponent_KeepsNullUrl(list, i, variations, srcArray) ==
  IF list[i].tag = "Local"
  THEN [srcArray |-> Append(srcArray, FontFaceSrc("Local", list[i].name, NullURI,
                                                  "None", "Empty")),
        i |-> i]
  ELSE IF list[i].tag = "Url"
  THEN LET r == UrlSource(list, i, variations) IN
       [srcArray |-> Append(srcArray, r.face), i |-> r.i]
  ELSE [srcArray |-> Append(srcArray, UnsetSrc), i |-> i]

\* One pass through the loop body for the component at index i: the array
\* afterwards and the index of the last component consumed.
AfterComponent(list, i, variations, srcArray) ==
  IF list[i].tag = "Local"
  THEN [srcArray |-> Append(srcArray, FontFaceSrc("Local", list[i].name, NullURI,
                                                  "None", "Empty")),
        i |-> i]
  ELSE IF list[i].tag = "Url"
  THEN LET r == UrlSource(list, i, variations) IN
       IF r.face.mURI = NullURI
       THEN [srcArray |-> srcArray, i |-> r.i]
       ELSE [srcArray |-> Append(srcArray, r.face), i |-> r.i]
  ELSE [srcArray |-> Append(srcArray, UnsetSrc), i |-> i]

\* The loop over the components from index i on.
RECURSIVE SrcArrayFrom(_, _, _, _)
SrcArrayFrom(list, i, variations, srcArray) ==
  IF i > Len(list) THEN srcArray
  ELSE LET r == AfterComponent(list, i, variations, srcArray) IN
       SrcArrayFrom(list, r.i + 1, variations, r.srcArray)

\* Variant: the source list is processed after the buffer source.
BuildSrcArray_BufferThenList(hasFontData, list, variations) ==
  SrcArrayFrom(list, 1, variations,
               IF hasFontData
               THEN <<FontFaceSrc("Buffer", "", NullURI, "None", "Empty")>>
               ELSE <<>>)

\* The source array of a face: its buffer if it has font data, else what its
\* source list gives.
BuildSrcArray(hasFontData, list, variations) ==
  IF hasFontData THEN <<FontFaceSrc("Buffer", "", NullURI, "None", "Empty")>>
  ELSE SrcArrayFrom(list, 1, variations, <<>>)

\* ---- state machine -----------------------------------------------------------
\* What an entry holds before any resolution stored attributes in it.
NoAttributes ==
  [weight |-> <<NORMAL, NORMAL>>, stretch |-> <<STRETCH_NORMAL, STRETCH_NORMAL>>,
   style |-> <<SLANT_NORMAL, SLANT_NORMAL>>, rangeFlags |-> eNoFlags,
   unicodeRanges |-> {}]

\* The outcome of no matching query.
NoMatch == [font |-> [valid |-> FALSE, families |-> <<>>, weight |-> NORMAL],
            text |-> <<>>, url |-> FALSE, faces |-> <<>>, err |-> "none"]

\* No source array has been built.
NoBuild == [face |-> None, hasFontData |-> FALSE, list |-> <<>>,
            variations |-> FALSE, srcArray |-> <<>>, entry |-> None]

\* The state after construction, for non-rule faces whose family names,
\* source arrays and descriptors are drawn from the given sets.
InitFaces(famChoices, srcChoices, weightChoices, rangeChoices) ==
  /\ mNonRuleFaces = <<>>
  /\ mStatus = "Loaded"
  /\ mNonRuleFacesDirty = FALSE
  /\ mHasLoadingFontFaces = FALSE
  /\ mHasLoadingFontFacesIsDirty = FALSE
  /\ mDelayedLoadCheck = FALSE
  /\ mOwner = TRUE
  /\ mLoaders = {}
  /\ cancelled = {}
  /\ userFontSetDirty = FALSE
  /\ families = [n \in FamilyNames |-> <<>>]
  /\ entryFamily = [f \in Faces |-> EmptyName]
  /\ inSet = {}
  /\ faceStatus = [f \in Faces |-> "Unloaded"]
  /\ faceFamily \in {fam \in [Faces -> famChoices \cup {NoFamily}] :
                       \A f \in RuleFaces : fam[f] = NoFamily}
  /\ faceHasSrc \in {src \in [Faces -> srcChoices \cup {TRUE}] :
                       \A f \in RuleFaces : src[f]}
  /\ faceDescriptors \in
       {d \in [Faces -> [weight : weightChoices \cup {Nothing},
                         stretch : {Nothing}, style : {Nothing},
                         unicodeRange : rangeChoices \cup {UpperAZ}]] :
          \A f \in RuleFaces : d[f].weight = Nothing /\ d[f].unicodeRange = UpperAZ}
  /\ entryAttributes = [f \in Faces |-> NoAttributes]
  /\ faceEntry = [f \in Faces |-> None]
  /\ readyPending = TRUE
  /\ notifs = <<>>
  /\ queue = <<>>
  /\ postTraversal = FALSE
  /\ lastOp = [op |-> "none", face |-> None, ret |-> FALSE, err |-> "none",
               afterAdd |-> FALSE]
  /\ matched = NoMatch
  /\ built = NoBuild

\* Faces that differ in family name and source array only: no weight
\* descriptor, unicode-range U+0041-005A.
InitWith(famChoices, srcChoices) ==
  InitFaces(famChoices, srcChoices, {Nothing}, {UpperAZ})

\* Faces without a family name: the registry stays empty and only the record
\* list and the loading status move.
Init == InitWith({NoFamily}, {TRUE})

\* Make s the next state; a dispatch beyond the queue bound is not taken.
Commit(s) ==
  /\ Len(s.queue) <= MaxQueue
  /\ mNonRuleFaces' = s.mNonRuleFaces
  /\ mStatus' = s.mStatus
  /\ mNonRuleFacesDirty' = s.mNonRuleFacesDirty
  /\ mHasLoadingFontFaces' = s.mHasLoadingFontFaces
  /\ mHasLoadingFontFacesIsDirty' = s.mHasLoadingFontFacesIsDirty
  /\ mDelayedLoadCheck' = s.mDelayedLoadCheck
  /\ mOwner' = s.mOwner
  /\ mLoaders' = s.mLoaders
  /\ cancelled' = s.cancelled
  /\ userFontSetDirty' = s.userFontSetDirty
  /\ families' = s.families
  /\ entryFamily' = s.entryFamily
  /\ inSet' = s.inSet
  /\ faceStatus' = s.faceStatus
  /\ faceFamily' = s.faceFamily
  /\ faceHasSrc' = s.faceHasSrc
  /\ faceDescriptors' = s.faceDescriptors
  /\ entryAttributes' = s.entryAttributes
  /\ faceEntry' = s.faceEntry
  /\ readyPending' = s.readyPending
  /\ notifs' = s.notifs
  /\ queue' = s.queue
  /\ postTraversal' = s.postTraversal

\* Record the call just made (when calls are being recorded).  A matching
\* query returns to its caller before the next step is taken.
Called(track, op, f, ret, err, afterAdd) ==
  /\ matched = NoMatch
  /\ lastOp' = IF track
               THEN [op |-> op, face |-> f, ret |-> ret, err |-> err,
                     afterAdd |-> afterAdd]
               ELSE lastOp
  /\ matched' = NoMatch
  /\ built' = built

\* A step that is not one of add, delete, clear.
Other(track) == Called(track, "other", None, FALSE, "none", FALSE)

\* Threads: the set of values IsOnOwningThread() may take for the caller.
OwningThread == {TRUE}
AnyThread == BOOLEAN

AddOp(threads, track) ==
  \E f \in Faces, onOwner \in threads :
    LET r == Add(St, f, onOwner) IN
    Commit(r.st) /\ Called(track, "Add", f, r.ret, r.err, FALSE)

DeleteOp(threads, track) ==
  \E f \in Faces, onOwner \in threads :
    LET r == Delete(St, f, onOwner) IN
    /\ Commit(r.st)
    /\ Called(track, "Delete", f, r.ret, "none",
              lastOp.op = "Add" /\ lastOp.ret /\ lastOp.face = f)

\* ret records whether the record list was non-empty when clear was called.
ClearOp(threads, track) ==
  \E onOwner \in threads :
    /\ Commit(Clear(St, onOwner))
    /\ Called(track, "Clear", None, mNonRuleFaces # <<>>, "none", FALSE)

StatusOp(track) ==
  /\ Commit(Status(St).st)
  /\ Other(track)

\* A matching query; it hands a list (or an error) to the caller.
FindMatchingOp(fonts, texts, urls) ==
  \E aFont \in fonts, aText \in texts, url \in urls :
    LET r == FindMatchingFontFaces(St, aFont, aText, url, <<>>) IN
    /\ matched = NoMatch
    /\ Commit(St)
    /\ lastOp' = lastOp
    /\ matched' = [font |-> aFont, text |-> aText, url |-> url,
                   faces |-> r.faces, err |-> r.err]
    /\ built' = built

\* The caller of the matching query takes the list.
FindMatchingReturns ==
  /\ matched # NoMatch
  /\ Commit(St)
  /\ lastOp' = lastOp
  /\ matched' = NoMatch
  /\ built' = built

\* A face that holds no entry is resolved: its source array is built from
\* its font data or its source list, and the face keeps the entry returned.
\* One build is followed to its end.
BuildOp(lists) ==
  \E f \in NonRuleFaces, hasFontData \in BOOLEAN, list \in lists,
     variations \in BOOLEAN :
    LET srcArray == BuildSrcArray(hasFontData, list, variations)
        r == FindOrCreateUserFontEntryFromFontFace1(
               [St EXCEPT !.faceHasSrc[f] = (srcArray # <<>>)], f)
    IN /\ built = NoBuild
       /\ faceEntry[f] = None
       /\ faceFamily[f] # NoFamily
       /\ hasFontData => list = <<>>
       /\ matched = NoMatch
       /\ Commit([r.st EXCEPT !.faceEntry[f] = r.entry])
       /\ lastOp' = lastOp
       /\ matched' = NoMatch
       /\ built' = [face |-> f, hasFontData |-> hasFontData, list |-> list,
                    variations |-> variations, srcArray |-> srcArray,
                    entry |-> r.entry]

\* The rebuild reaches a face that holds no entry: InsertNonRuleFontFace
\* resolves it from its font data or source list, whatever its family name,
\* and puts the entry, if there is one, into the family.
InsertBuiltOp(lists) ==
  \E f \in NonRuleFaces, hasFontData \in BOOLEAN, list \in lists,
     variations \in BOOLEAN :
    LET srcArray == BuildSrcArray(hasFontData, list, variations)
        s1 == InsertNonRuleFontFace(
                [St EXCEPT !.faceHasSrc[f] = (srcArray # <<>>)], f)
    IN /\ built = NoBuild
       /\ faceEntry[f] = None
       /\ hasFontData => list = <<>>
       /\ matched = NoMatch
       /\ Commit(s1)
       /\ lastOp' = lastOp
       /\ matched' = NoMatch
       /\ built' = [face |-> f, hasFontData |-> hasFontData, list |-> list,
                    variations |-> variations, srcArray |-> srcArray,
                    entry |-> s1.faceEntry[f]]

\* The family name of a non-rule face is set to another name.
FamilyNameSet(track) ==
  \E f \in NonRuleFaces, name \in FamilyNames :
    /\ faceFamily[f] # name
    /\ Commit(SetFamilyName(St, f, name))
    /\ Called(track, "SetFamilyName", f, faceEntry[f] # None, "none", FALSE)

\* The weight descriptor of a non-rule face is set to another value.
FontWeightSet(track) ==
  \E f \in NonRuleFaces, weight \in {Nothing, Some(<<BOLD, BOLD>>)} :
    /\ faceDescriptors[f].weight # weight
    /\ Commit(SetFontWeight(St, f, weight))
    /\ Called(track, "SetFontWeight", f, faceEntry[f] # None, "none", FALSE)

\* The stretch descriptor of a non-rule face is unset or set to normal.
FontStretchSet ==
  \E f \in NonRuleFaces,
     stretch \in {Nothing, Some(<<STRETCH_NORMAL, STRETCH_NORMAL>>)} :
    /\ faceDescriptors[f].stretch # stretch
    /\ Commit(SetFontStretch(St, f, stretch))
    /\ Other(FALSE)

\* The style descriptor of a non-rule face is unset or set to normal or
\* italic.
FontStyleSet ==
  \E f \in NonRuleFaces, style \in {Nothing} \cup {Some(v) : v \in StyleDescriptors} :
    /\ faceDescriptors[f].style # style
    /\ Commit(SetFontStyle(St, f, style))
    /\ Other(FALSE)

\* The entry of a face is resolved from its descriptor as it stands; the
\* face keeps the entry returned.  ret records whether the face held an entry.
ResolveOp(track) ==
  \E f \in NonRuleFaces :
    LET r == FindOrCreateUserFontEntryFromFontFace1(St, f) IN
    /\ Commit([r.st EXCEPT !.faceEntry[f] = r.entry])
    /\ Called(track, "Resolve", f, faceEntry[f] # None, "none", FALSE)

\* A non-rule face moves forward in its load: Unloaded -> Loading -> Loaded
\* or Error (or straight to a terminal status).
FaceStatusChange(threads, track) ==
  \E f \in NonRuleFaces, status \in FaceStatuses \ {"Unloaded"},
     onOwner \in threads, inTraversal \in BOOLEAN :
    /\ faceStatus[f] \notin TerminalStatuses
    /\ faceStatus[f] # status
    /\ Commit(SetStatus(St, f, status, onOwner, inTraversal))
    /\ Other(track)

\* The same step for a face whose status changes inside or outside a style
\* traversal as given.
FaceStatusChangeIn(threads, traversals) ==
  \E f \in NonRuleFaces, status \in FaceStatuses \ {"Unloaded"},
     onOwner \in threads, inTraversal \in traversals :
    /\ faceStatus[f] \notin TerminalStatuses
    /\ faceStatus[f] # status
    /\ Commit(SetStatus(St, f, status, onOwner, inTraversal))
    /\ Other(FALSE)

\* A loading face that has had no loader yet gets one.
StartLoadOp ==
  \E f \in NonRuleFaces :
    /\ faceStatus[f] = "Loading"
    /\ f \notin mLoaders \cup cancelled
    /\ Commit([St EXCEPT !.mLoaders = mLoaders \cup {f}])
    /\ Other(FALSE)

\* A loader is done and leaves the loader table.
RemoveLoaderOp ==
  \E l \in mLoaders :
    /\ Commit(RemoveLoader(St, l))
    /\ Other(FALSE)

\* The set is torn down.
DestroyOp ==
  /\ Commit(Destroy(St))
  /\ Other(FALSE)

\* The style engine makes a rule-derived face a member of the set.
RuleFaceInserted(track) ==
  \E f \in RuleFaces :
    /\ f \notin inSet
    /\ Commit(AddFontFaceSet(St, f))
    /\ Other(track)

Dequeued == [St EXCEPT !.queue = Tail(queue)]

RunOnLoadingStarted(track) ==
  /\ queue # <<>> /\ Head(queue) = "OnLoadingStarted"
  /\ Commit(OnLoadingStarted(Dequeued))
  /\ Other(track)

RunOnLoadingFinished(track) ==
  /\ queue # <<>> /\ Head(queue) = "OnLoadingFinished"
  /\ Commit(OnLoadingFinished(Dequeued))
  /\ Other(track)

RunCheckLoadingFinishedAfterDelay(track) ==
  /\ queue # <<>> /\ Head(queue) = "CheckLoadingFinishedAfterDelay"
  /\ Commit(CheckLoadingFinishedAfterDelay(Dequeued, TRUE))
  /\ Other(track)

\* After the traversal the post-traversal task re-dispatches the delayed check
\* from the owning thread.
RunPostTraversalTask(track) ==
  /\ postTraversal
  /\ Commit(DispatchCheckLoadingFinishedAfterDelay(
              [St EXCEPT !.postTraversal = FALSE], FALSE))
  /\ Other(track)

\* Every call is made on the owning thread; the calls are recorded.
Next ==
  \/ AddOp(OwningThread, TRUE)
  \/ DeleteOp(OwningThread, TRUE)
  \/ ClearOp(OwningThread, TRUE)
  \/ StatusOp(TRUE)
  \/ FaceStatusChange(OwningThread, TRUE)
  \/ RuleFaceInserted(TRUE)
  \/ RunCheckLoadingFinishedAfterDelay(TRUE)
  \/ RunPostTraversalTask(TRUE)

Spec == Init /\ [][Next]_vars

\* Calls arrive on the owning thread or on another thread.
NextThreads ==
  \/ AddOp(AnyThread, FALSE)
  \/ DeleteOp(AnyThread, FALSE)
  \/ ClearOp(AnyThread, FALSE)
  \/ FaceStatusChange(AnyThread, FALSE)
  \/ RunOnLoadingStarted(FALSE)
  \/ RunOnLoadingFinished(FALSE)
  \/ RunCheckLoadingFinishedAfterDelay(FALSE)
  \/ RunPostTraversalTask(FALSE)

SpecThreads == Init /\ [][NextThreads]_vars

\* Every task dispatched to the owning thread, and every post-traversal
\* task, eventually runs.
TasksRun ==
  /\ WF_vars(RunOnLoadingStarted(FALSE))
  /\ WF_vars(RunOnLoadingFinished(FALSE))
  /\ WF_vars(RunCheckLoadingFinishedAfterDelay(FALSE))
  /\ WF_vars(RunPostTraversalTask(FALSE))

FairSpecThreads == SpecThreads /\ TasksRun

\* Faces with family names and source arrays: add, delete and clear against
\* the registry.
InitRegistry == InitWith(FamilyNames, BOOLEAN)

NextRegistry ==
  \/ AddOp(OwningThread, TRUE)
  \/ DeleteOp(OwningThread, TRUE)
  \/ ClearOp(OwningThread, TRUE)
  \/ StatusOp(TRUE)

SpecRegistry == InitRegistry /\ [][NextRegistry]_vars

\* Faces with family names, weights and unicode ranges: add, delete, clear and
\* status against the registry, and matching queries.
InitMatching == InitFaces(FamilyNames, {TRUE}, {Nothing}, {Emoji})

\* The shorthands and texts of the queries.
QueryFonts ==
  {f \in Shorthands :
     \/ f.valid /\ f.weight = NORMAL
     \/ f.families = <<"A">>}

QueryTexts == {<<72>>, <<104, 72>>, <<55357, 56832>>}

NextMatching ==
  \/ AddOp(OwningThread, FALSE)
  \/ DeleteOp(OwningThread, FALSE)
  \/ ClearOp(OwningThread, FALSE)
  \/ StatusOp(FALSE)
  \/ FindMatchingOp(QueryFonts, QueryTexts, BOOLEAN)
  \/ FindMatchingReturns

SpecMatching == InitMatching /\ [][NextMatching]_vars

\* Queries for one weight with every text up to the length bound, against
\* the registry as add and status build it.
CoverageFonts ==
  {f \in Shorthands :
     /\ f.valid /\ f.weight = NORMAL
     /\ f.families \in {<<"A">>, <<"B">>, <<Generic>>, <<Generic, "A">>}}

NextCoverage ==
  \/ AddOp(OwningThread, FALSE)
  \/ StatusOp(FALSE)
  \/ FindMatchingOp(CoverageFonts, Texts, {TRUE})
  \/ FindMatchingReturns

SpecCoverage == InitMatching /\ [][NextCoverage]_vars

\* Faces whose family name and weight change while they are added, deleted,
\* resolved and folded into the registry; the last resolve call is recorded.
InitResolve == InitFaces(FamilyNames, {TRUE}, {Nothing}, {UpperAZ})

NextResolve ==
  \/ AddOp(OwningThread, FALSE)
  \/ StatusOp(FALSE)
  \/ FamilyNameSet(FALSE)
  \/ FontWeightSet(FALSE)
  \/ ResolveOp(TRUE)

SpecResolve == InitResolve /\ [][NextResolve]_vars

\* Faces of family "A" whose weight is unspecified or explicitly normal at
\* first, whose weight, stretch and style descriptors change, and that are
\* resolved.
InitRanges == InitFaces({"A"}, {TRUE}, {Some(<<NORMAL, NORMAL>>)}, {UpperAZ})

NextRanges ==
  \/ FontWeightSet(FALSE)
  \/ FontStretchSet
  \/ FontStyleSet
  \/ ResolveOp(FALSE)

SpecRanges == InitRanges /\ [][NextRanges]_vars

\* Faces of family "A" that are resolved from source lists of up to MaxTokens
\* components, and added to the set.
InitSources == InitWith({"A"}, {TRUE})

NextSources ==
  \/ BuildOp(SourceLists)
  \/ AddOp(OwningThread, FALSE)

SpecSources == InitSources /\ [][NextSources]_vars

\* Faces with or without a family name that the rebuild inserts, with font
\* data or a source list of up to MaxTokens components.
NextInsert ==
  \/ InsertBuiltOp(SourceLists)
  \/ AddOp(OwningThread, FALSE)

SpecInsert == InitSources /\ [][NextInsert]_vars

\* add, delete and clear are called on the owning thread and recorded; a face
\* may change its load status on another thread.
NextLoads ==
  \/ AddOp(OwningThread, TRUE)
  \/ DeleteOp(OwningThread, TRUE)
  \/ ClearOp(OwningThread, TRUE)
  \/ FaceStatusChange(AnyThread, TRUE)
  \/ RunOnLoadingStarted(TRUE)
  \/ RunCheckLoadingFinishedAfterDelay(TRUE)
  \/ RunPostTraversalTask(TRUE)

SpecLoads == Init /\ [][NextLoads]_vars

\* add, clear and status changes outside a style traversal, on the owning
\* thread or on another thread, and the tasks of the owning thread.
NextNotify ==
  \/ AddOp(AnyThread, FALSE)
  \/ ClearOp(AnyThread, FALSE)
  \/ FaceStatusChangeIn(AnyThread, {FALSE})
  \/ RunOnLoadingStarted(FALSE)
  \/ RunOnLoadingFinished(FALSE)
  \/ RunCheckLoadingFinishedAfterDelay(FALSE)

SpecNotify == Init /\ [][NextNotify]_vars

\* Faces that are added and load with loaders, on the owning thread or on
\* another thread; the set is cleared from another thread, and torn down at
\* any time.  Calls that come through the owner, and new loads, stop with the
\* tear-down; faces, loaders and tasks go on.
NextTeardown ==
  \/ mOwner /\ AddOp(OwningThread, FALSE)
  \/ mOwner /\ ClearOp({FALSE}, FALSE)
  \/ FaceStatusChangeIn(AnyThread, {FALSE})
  \/ mOwner /\ StartLoadOp
  \/ RemoveLoaderOp
  \/ mOwner /\ DestroyOp
  \/ RunOnLoadingStarted(FALSE)
  \/ RunOnLoadingFinished(FALSE)
  \/ RunCheckLoadingFinishedAfterDelay(FALSE)

SpecTeardown == Init /\ [][NextTeardown]_vars

\* Faces are added and the set is cleared on the owning thread; faces change
\* their load status on any thread, inside or outside a style traversal; the
\* tasks of the owning thread and the post-traversal task run.
NextDelay ==
  \/ AddOp(OwningThread, FALSE)
  \/ ClearOp(OwningThread, FALSE)
  \/ FaceStatusChange(AnyThread, FALSE)
  \/ RunOnLoadingStarted(FALSE)
  \/ RunCheckLoadingFinishedAfterDelay(FALSE)
  \/ RunPostTraversalTask(FALSE)

SpecDelay == Init /\ [][NextDelay]_vars

\* ---- properties ------------------------------------------------------------------
\* Number of delayed finish checks that are scheduled and have not run.
ScheduledDelayedChecks ==
  Len(SelectSeq(queue, LAMBDA task : task = "CheckLoadingFinishedAfterDelay"))
    + (IF postTraversal THEN 1 ELSE 0)

RecordsLoading == AnyRecordLoading(St)

RecordStatuses == {faceStatus[mNonRuleFaces[i]] : i \in 1..Len(mNonRuleFaces)}

\* C1: whenever a face of the record list has status Loading the aggregate
\* status is Loading, so the aggregate is never Loaded while a tracked face is
\* mid-load, whatever the interleaving of calls, notifications and tasks.
C1_LoadingWhileAnyFaceLoads == RecordsLoading => mStatus = "Loading"

\* One record is loading, another record has a terminal status and no delayed
\* check is outstanding: the aggregate is Loading.
C1_Witness ==
  /\ RecordsLoading
  /\ RecordStatuses \cap TerminalStatuses # {}
  /\ ~mDelayedLoadCheck
  /\ ScheduledDelayedChecks = 0
  /\ mStatus = "Loading"

\* C2 (as claimed): whenever the aggregate status is Loaded, every face of the
\* record list has a terminal status and the non-rule-faces dirty flag is clear.
C2_Claim ==
  mStatus = "Loaded" =>
    (RecordStatuses \subseteq TerminalStatuses /\ ~mNonRuleFacesDirty)

\* C2 (amended): whenever the aggregate status is Loaded, no face of the record
\* list has status Loading; a record may still be Unloaded and the dirty flag
\* may be set.
C2_LoadedOnlyWhenNoFaceLoads ==
  mStatus = "Loaded" => RecordStatuses \subseteq (FaceStatuses \ {"Loading"})

\* The set is Loaded right after the add of a face that never started to load.
C2_Witness ==
  /\ mStatus = "Loaded"
  /\ "Unloaded" \in RecordStatuses
  /\ mNonRuleFacesDirty
  /\ lastOp.op = "Add" /\ lastOp.ret

\* A member of the set reaches a terminal status in this step.
TerminalNotification ==
  \E f \in inSet :
    faceStatus[f] \notin TerminalStatuses /\ faceStatus'[f] \in TerminalStatuses

\* C3: the notification of a face reaching Loaded or Error leaves the aggregate
\* status as it is, leaves the delay flag set and exactly one delayed check
\* scheduled; and no step that ends with the delay flag set (a delete or clear
\* while the delayed check is outstanding) takes the aggregate from Loading to
\* Loaded.
C3_FinishOnlyAfterDelay ==
  [][ /\ TerminalNotification =>
           (mStatus' = mStatus /\ mDelayedLoadCheck' /\ ScheduledDelayedChecks' = 1)
      /\ mDelayedLoadCheck' => ~(mStatus = "Loading" /\ mStatus' = "Loaded")
    ]_vars

\* The last loading face finished and was then removed while the delayed check
\* is still outstanding: the aggregate is still Loading.
C3_Witness ==
  /\ mDelayedLoadCheck
  /\ ScheduledDelayedChecks = 1
  /\ mStatus = "Loading"
  /\ mNonRuleFaces = <<>>
  /\ readyPending

\* C4 (as claimed): once every scheduled task has run and no tracked face is
\* loading, the aggregate status is Loaded: the set is never left in Loading
\* with nothing loading and nothing scheduled.
C4_Claim ==
  (queue = <<>> /\ ~postTraversal /\ ~RecordsLoading) => mStatus = "Loaded"


\* C5: a face entering Error has the same effect on the set as one entering
\* Loaded (same flags, same scheduled check, same aggregate status); the
\* aggregate is Loading or Loaded and nothing else; and with every call on the
\* owning thread the aggregate is Loading only while a record is Loading or a
\* delayed check is outstanding, so faces in Error do not keep it in Loading.
C5_ErrorIsTerminal ==
  /\ mStatus \in {"Loading", "Loaded"}
  /\ mStatus = "Loading" => (RecordsLoading \/ mDelayedLoadCheck)
  /\ \A f \in inSet, inTraversal \in BOOLEAN :
       faceStatus[f] \notin TerminalStatuses =>
         LET e == SetStatus(St, f, "Error", TRUE, inTraversal)
             l == SetStatus(St, f, "Loaded", TRUE, inTraversal)
         IN /\ e.faceStatus[f] = "Error"
            /\ [e EXCEPT !.faceStatus = l.faceStatus] = l

\* Every record ended in Error after a load, and the set finished loading.
C5_Witness ==
  /\ mNonRuleFaces # <<>>
  /\ RecordStatuses = {"Error"}
  /\ mStatus = "Loaded"
  /\ notifs = <<"loading", "loadingdone">>
  /\ ~mDelayedLoadCheck

\* C6 (as claimed): add of a rule-derived face returns false with the
\* invalid-modification error, member or not, and leaves the record list, the
\* dirty flags and the aggregate status unchanged.
C6_Claim ==
  [][ (lastOp'.op = "Add" /\ HasRule(lastOp'.face)) =>
        /\ ~lastOp'.ret
        /\ lastOp'.err = "InvalidModificationError"
        /\ mNonRuleFaces' = mNonRuleFaces
        /\ mNonRuleFacesDirty' = mNonRuleFacesDirty
        /\ mHasLoadingFontFacesIsDirty' = mHasLoadingFontFacesIsDirty
        /\ mStatus' = mStatus
    ]_vars

\* C6 (amended): add of a rule-derived face returns false; it raises the
\* invalid-modification error when the face is not a member of the set and no
\* error when it already is one.  Either way the record list, the membership,
\* the has-loading dirty bit and the aggregate status are unchanged and no
\* dirty flag is set (the flush at the start may clear one).
C6_RuleFaceAddFails ==
  [][ (lastOp'.op = "Add" /\ HasRule(lastOp'.face)) =>
        /\ ~lastOp'.ret
        /\ lastOp'.err = IF lastOp'.face \in inSet THEN "none"
                         ELSE "InvalidModificationError"
        /\ mNonRuleFaces' = mNonRuleFaces
        /\ inSet' = inSet
        /\ mNonRuleFacesDirty' => mNonRuleFacesDirty
        /\ userFontSetDirty' => userFontSetDirty
        /\ mHasLoadingFontFacesIsDirty' = mHasLoadingFontFacesIsDirty
        /\ mStatus' = mStatus
        /\ notifs' = notifs /\ queue' = queue
    ]_vars

\* A rule-derived face was refused with the error while the set was loading.
C6_Witness ==
  /\ lastOp.op = "Add" /\ HasRule(lastOp.face)
  /\ lastOp.err = "InvalidModificationError"
  /\ mNonRuleFaces # <<>>
  /\ mStatus = "Loading"

NoDuplicateRecords ==
  \A i, j \in 1..Len(mNonRuleFaces) : i # j => mNonRuleFaces[i] # mNonRuleFaces[j]

\* C7: no face occurs twice in the record list; and add of a face that is in
\* the record list returns false without an error, appends nothing and sets no
\* dirty flag.
C7_NoDuplicates ==
  /\ []NoDuplicateRecords
  /\ [][ (lastOp'.op = "Add" /\ Contains(mNonRuleFaces, lastOp'.face)) =>
           /\ ~lastOp'.ret
           /\ lastOp'.err = "none"
           /\ mNonRuleFaces' = mNonRuleFaces
           /\ mNonRuleFacesDirty' => mNonRuleFacesDirty
           /\ userFontSetDirty' => userFontSetDirty
           /\ mHasLoadingFontFacesIsDirty' => mHasLoadingFontFacesIsDirty
       ]_vars

\* A member was added again while the list held every non-rule face.
C7_Witness ==
  /\ lastOp.op = "Add" /\ ~lastOp.ret /\ lastOp.err = "none"
  /\ Contains(mNonRuleFaces, lastOp.face)
  /\ Len(mNonRuleFaces) = NumNonRule

\* C8 (as claimed): after a successful add, delete of the same face succeeds
\* and leaves the record list and the registry's families as they were before
\* the add.
C8_Claim ==
  [][ (lastOp'.op = "Add" /\ lastOp'.ret) =>
        LET d == Delete(St', lastOp'.face, TRUE) IN
        /\ d.ret
        /\ d.st.mNonRuleFaces = mNonRuleFaces
        /\ d.st.families = families
    ]_vars

\* C8 (amended): after a successful add, delete of the same face succeeds and
\* leaves the record list as it was before the add; the registry's families
\* are those of the state before the add once the pending rebuild is flushed
\* (until then the registry still holds the deleted face's entry).
C8_AddThenDeleteRestores ==
  [][ (lastOp'.op = "Add" /\ lastOp'.ret) =>
        LET d == Delete(St', lastOp'.face, TRUE) IN
        /\ d.ret
        /\ d.st.mNonRuleFaces = mNonRuleFaces
        /\ FlushUserFontSet(d.st).families = FlushUserFontSet(St).families
    ]_vars

\* A face was added and deleted at once; another record remains and the
\* registry still holds the entry the deleted face contributed.
C8_Witness ==
  /\ lastOp.op = "Delete" /\ lastOp.ret /\ lastOp.afterAdd
  /\ mNonRuleFaces # <<>>
  /\ \E n \in FamilyNames : Contains(families[n], faceEntry[lastOp.face])

\* A delete that must fail: of a rule-derived face or of a face that is not in
\* the record list.
DeleteMustFail(f) == HasRule(f) \/ ~Contains(mNonRuleFaces, f)

\* C9 (as claimed): delete of a rule-derived face or of a face not in the
\* record list returns false and changes nothing: record list, dirty flags,
\* has-loading dirty bit and aggregate status stay as they are and no check or
\* notification is triggered.
C9_Claim ==
  [][ (lastOp'.op = "Delete" /\ DeleteMustFail(lastOp'.face)) =>
        /\ ~lastOp'.ret
        /\ mNonRuleFaces' = mNonRuleFaces
        /\ mNonRuleFacesDirty' = mNonRuleFacesDirty
        /\ mHasLoadingFontFacesIsDirty' = mHasLoadingFontFacesIsDirty
        /\ mStatus' = mStatus
        /\ notifs' = notifs /\ queue' = queue
    ]_vars

\* C9 (amended): delete of a rule-derived face or of a face not in the record
\* list returns false; apart from the flush at its start, which may clear the
\* dirty flag, it changes nothing: record list, membership, has-loading cache
\* and its dirty bit, delay flag and aggregate status stay as they are, no
\* dirty flag is set and no check or notification is triggered.
C9_FailedDeleteChangesNothing ==
  [][ (lastOp'.op = "Delete" /\ DeleteMustFail(lastOp'.face)) =>
        /\ ~lastOp'.ret
        /\ mNonRuleFaces' = mNonRuleFaces
        /\ inSet' = inSet
        /\ mNonRuleFacesDirty' => mNonRuleFacesDirty
        /\ userFontSetDirty' => userFontSetDirty
        /\ mHasLoadingFontFacesIsDirty' = mHasLoadingFontFacesIsDirty
        /\ mHasLoadingFontFaces' = mHasLoadingFontFaces
        /\ mDelayedLoadCheck' = mDelayedLoadCheck
        /\ mStatus' = mStatus
        /\ readyPending' = readyPending
        /\ notifs' = notifs /\ queue' = queue /\ postTraversal' = postTraversal
    ]_vars

\* A delete failed while the set was loading and the promise was pending.
C9_Witness ==
  /\ lastOp.op = "Delete" /\ ~lastOp.ret
  /\ mNonRuleFaces # <<>>
  /\ mStatus = "Loading"
  /\ readyPending
  /\ ~mDelayedLoadCheck

\* C10: clear of an empty record list sets no dirty flag, leaves the aggregate
\* status and the delay flag as they are, and delivers or schedules no
\* notification, also while a delayed check is outstanding or the promise is
\* pending.
C10_ClearOfEmptyIsNoOp ==
  [][ (lastOp'.op = "Clear" /\ mNonRuleFaces = <<>>) =>
        /\ mNonRuleFaces' = <<>>
        /\ mNonRuleFacesDirty' => mNonRuleFacesDirty
        /\ userFontSetDirty' => userFontSetDirty
        /\ mHasLoadingFontFacesIsDirty' => mHasLoadingFontFacesIsDirty
        /\ mStatus' = mStatus
        /\ mDelayedLoadCheck' = mDelayedLoadCheck
        /\ readyPending' = readyPending
        /\ notifs' = notifs /\ queue' = queue /\ postTraversal' = postTraversal
    ]_vars

\* Clear was called on an empty list while the aggregate was Loading, the
\* promise pending and a delayed check outstanding.
C10_Witness ==
  /\ lastOp.op = "Clear" /\ ~lastOp.ret
  /\ mNonRuleFaces = <<>>
  /\ mStatus = "Loading"
  /\ readyPending
  /\ mDelayedLoadCheck

\* C11 (as claimed): right after clear of a non-empty record list the list is
\* empty, no non-rule face is a member of the set, and the aggregate status is
\* Loaded or a delayed finish check is scheduled that will make it Loaded (with
\* an empty list nothing else ever runs the finish check), also when cleared
\* faces were loading or a delayed check was outstanding.
C11_Claim ==
  (lastOp.op = "Clear" /\ lastOp.ret) =>
    /\ mNonRuleFaces = <<>>
    /\ inSet \cap NonRuleFaces = {}
    /\ (mStatus = "Loaded" \/ (mDelayedLoadCheck /\ ScheduledDelayedChecks > 0))

\* ---- matching queries ------------------------------------------------------------
\* A matching query returned a list.
QueryDone == matched # NoMatch /\ matched.err = "none"

Records == Range(mNonRuleFaces)

NamedFamilies(aFont) == {n \in Range(aFont.families) : IsFamilyName(n)}

\* The code points of a UTF-16 text: the units that are no surrogates, the
\* code point of every high surrogate followed by a low one, and U+FFFD when
\* a surrogate stands alone.
CodePoints(text) ==
  LET idx == 1..Len(text)
      paired(i) == IsHighSurrogate(text[i]) /\ i < Len(text) /\ IsLowSurrogate(text[i + 1])
  IN {text[i] : i \in {j \in idx : ~IsHighSurrogate(text[j]) /\ ~IsLowSurrogate(text[j])}}
       \cup {65536 + (text[i] - 55296) * 1024 + (text[i + 1] - 56320) :
               i \in {j \in idx : paired(j)}}
       \cup {65533 : i \in {j \in idx :
                               \/ IsHighSurrogate(text[j]) /\ ~paired(j)
                               \/ IsLowSurrogate(text[j]) /\ ~(j > 1 /\ paired(j - 1))}}

\* The descriptor of face f matches the query: its family is named, its
\* weight range holds the weight and its unicode range holds a code point of
\* the text.
DescriptorMatches(f, aFont, aText) ==
  LET weight == GetWeightRangeForDescriptor(faceDescriptors[f].weight, eNoFlags).range IN
  /\ faceFamily[f] \in NamedFamilies(aFont)
  /\ weight[1] <= aFont.weight /\ aFont.weight <= weight[2]
  /\ CodePoints(aText) \cap faceDescriptors[f].unicodeRange # {}

\* The entry of face f is in the family the face names.
EntryRegistered(f) ==
  /\ faceFamily[f] # NoFamily
  /\ faceEntry[f] # None
  /\ Contains(families[faceFamily[f]], faceEntry[f])

Reverse(seq) == [i \in 1..Len(seq) |-> seq[Len(seq) + 1 - i]]

\* Face f holds an entry that is in a named family of the shorthand, whose
\* weight range holds the weight and whose unicode range holds a code point
\* of the text.
OwnsMatchingEntry(f, aFont, aText) ==
  /\ faceEntry[f] # None
  /\ \E n \in NamedFamilies(aFont) \cap FamilyNames : Contains(families[n], faceEntry[f])
  /\ entryAttributes[faceEntry[f]].weight[1] <= aFont.weight
  /\ aFont.weight <= entryAttributes[faceEntry[f]].weight[2]
  /\ CodePoints(aText) \cap entryAttributes[faceEntry[f]].unicodeRanges # {}

\* C13: the list returned holds every record that owns a matching entry, each
\* once, in the order of the record list; the same list comes back when the
\* families of the shorthand, or the entries of every family, are taken in
\* the opposite order.
C13_MatchesInRecordOrder ==
  QueryDone =>
    /\ matched.faces =
         SelectSeq(mNonRuleFaces,
                   LAMBDA f : OwnsMatchingEntry(f, matched.font, matched.text))
    /\ \A i, j \in 1..Len(matched.faces) : i # j => matched.faces[i] # matched.faces[j]
    /\ FindMatchingFontFaces(
         St, [matched.font EXCEPT !.families = Reverse(matched.font.families)],
         matched.text, TRUE, <<>>).faces = matched.faces
    /\ FindMatchingFontFaces(
         [St EXCEPT !.families = [n \in FamilyNames |-> Reverse(families[n])]],
         matched.font, matched.text, TRUE, <<>>).faces = matched.faces

\* Two records of different families were returned in record order although
\* the shorthand names their families in the opposite order.
C13_Witness ==
  /\ QueryDone
  /\ Len(matched.faces) = 2
  /\ matched.faces = mNonRuleFaces
  /\ Len(matched.font.families) = 2
  /\ faceFamily[matched.faces[1]] = matched.font.families[2]
  /\ faceFamily[matched.faces[2]] = matched.font.families[1]

\* The entry of record f is in a named family of the shorthand and its weight
\* range holds the weight.
EntryInNamedFamily(f, aFont) ==
  /\ EntryRegistered(f)
  /\ faceFamily[f] \in NamedFamilies(aFont)
  /\ entryAttributes[faceEntry[f]].weight[1] <= aFont.weight
  /\ aFont.weight <= entryAttributes[faceEntry[f]].weight[2]

\* C14: a record whose entry is in a named family and matches the weight is
\* returned exactly when some code point of the text is in the entry's
\* unicode range; for an entry of range U+0041-005A a text holding 'H' returns
\* the face and a text of 'h' only, or the empty text, does not; a shorthand
\* of generic families only, or of families without entries, returns nothing.
C14_CoversAnyCodePoint ==
  QueryDone =>
    /\ \A f \in Records :
         EntryInNamedFamily(f, matched.font) =>
           LET range == entryAttributes[faceEntry[f]].unicodeRanges IN
           /\ f \in Range(matched.faces) <=> CodePoints(matched.text) \cap range # {}
           /\ (range = UpperAZ /\ 72 \in Range(matched.text)) => f \in Range(matched.faces)
           /\ (range = UpperAZ /\ Range(matched.text) \subseteq {104}) =>
                f \notin Range(matched.faces)
           /\ range = Emoji =>
                (f \in Range(matched.faces) <=>
                   \E i \in 1..(Len(matched.text) - 1) :
                     matched.text[i] = 55357 /\ matched.text[i + 1] = 56832)
    /\ matched.text = <<>> => matched.faces = <<>>
    /\ NamedFamilies(matched.font) = {} => matched.faces = <<>>
    /\ (\A n \in NamedFamilies(matched.font) : families[n] = <<>>) => matched.faces = <<>>

\* The text "hH" was matched against an entry of range U+0041-005A and the
\* face was returned although the first character is outside the range.
C14_Witness ==
  /\ QueryDone
  /\ matched.text = <<104, 72>>
  /\ matched.faces # <<>>
  /\ entryAttributes[faceEntry[matched.faces[1]]].unicodeRanges = UpperAZ

\* C15: a matching query without URL data fails with the invalid-state error
\* and, with URL data, a malformed shorthand fails with the syntax error; a
\* failed query hands back the list it was given, whatever that list held; and
\* no query changes the record list, the registry, a dirty flag or the
\* aggregate status.
C15_MatchErrors ==
  /\ [](matched # NoMatch =>
          /\ matched.err = IF ~matched.url THEN "InvalidStateError"
                           ELSE IF ~matched.font.valid THEN "SyntaxError"
                           ELSE "none"
          /\ matched.err # "none" =>
               \A aFontFaces \in {<<>>, <<RuleFace>>, <<1, RuleFace>>} :
                 FindMatchingFontFaces(St, matched.font, matched.text, matched.url,
                                       aFontFaces)
                   = [faces |-> aFontFaces, err |-> matched.err])
  /\ [][(matched = NoMatch /\ matched' # NoMatch) => St' = St]_vars

\* A malformed shorthand was refused while the set held records and a
\* rebuild was pending.
C15_Witness ==
  /\ matched.err = "SyntaxError"
  /\ matched.faces = <<>>
  /\ mNonRuleFaces # <<>>
  /\ userFontSetDirty

\* ---- the resolver and the registry ---------------------------------------------
\* The families that hold entry e.
FamiliesOf(e) == {n \in FamilyNames : Contains(families[n], e)}

\* C16: an entry is in at most one family, and only in the family that a face
\* holding it names; a family tag, when set, is that family's name.  When the
\* family name of a face that holds an entry changes, the entry leaves the old
\* family and loses its tag in that step, before a rebuild makes it a member
\* of the new family.
C16_EntryInOneFamily ==
  /\ [](\A f \in Faces :
          faceEntry[f] # None =>
            /\ Cardinality(FamiliesOf(faceEntry[f])) <= 1
            /\ FamiliesOf(faceEntry[f]) \subseteq {faceFamily[f]}
            /\ entryFamily[faceEntry[f]] \in {EmptyName, faceFamily[f]})
  /\ [][\A f \in Faces :
          (faceFamily'[f] # faceFamily[f] /\ faceEntry[f] # None) =>
            /\ faceEntry'[f] = faceEntry[f]
            /\ \A n \in FamilyNames : ~Contains(families'[n], faceEntry[f])
            /\ entryFamily'[faceEntry[f]] = EmptyName
       ]_vars

\* A record changed its family name after its entry was registered: the
\* entry has no tag and is in no family while the rebuild is pending, and
\* another record's entry is registered.
C16_Witness ==
  /\ userFontSetDirty
  /\ \E f \in Records :
       /\ faceEntry[f] # None
       /\ entryFamily[faceEntry[f]] = EmptyName
       /\ FamiliesOf(faceEntry[f]) = {}
  /\ \E g \in Records : EntryRegistered(g)

\* The number of entries in all families of a registry.
RegistrySize(fams) ==
  LET RECURSIVE Sum(_)
      Sum(S) == IF S = {} THEN 0
                ELSE LET n == CHOOSE m \in S : TRUE IN Len(fams[n]) + Sum(S \ {n})
  IN Sum(FamilyNames)

\* C17: resolving a face that holds an entry returns that entry with the
\* descriptor's attributes stored in it, whether or not the face has a usable
\* source array; it touches no other entry and adds no entry to any family;
\* when the family name is the one the entry is tagged with (or the entry has
\* no tag) the registry is left as it is; and resolving once more changes
\* nothing.
C17_ResolveKeepsEntry ==
  \A f \in NonRuleFaces :
    (faceEntry[f] # None /\ faceFamily[f] # NoFamily) =>
      LET e == faceEntry[f]
          r == FindOrCreateUserFontEntryFromFontFace1(St, f)
          nosrc == FindOrCreateUserFontEntryFromFontFace1(
                     [St EXCEPT !.faceHasSrc[f] = FALSE], f)
      IN /\ r.entry = e
         /\ nosrc.entry = e
         /\ r.st.entryAttributes[e] = DescriptorAttributes(St, f)
         /\ \A x \in Faces \ {e} :
              /\ r.st.entryAttributes[x] = entryAttributes[x]
              /\ r.st.entryFamily[x] = entryFamily[x]
         /\ \A n \in FamilyNames : Len(r.st.families[n]) <= Len(families[n])
         /\ entryFamily[e] \in {EmptyName, faceFamily[f]} =>
              (r.st.families = families /\ r.st.entryFamily = entryFamily)
         /\ FindOrCreateUserFontEntryFromFontFace1(r.st, f) = r

\* A record that held a registered entry was resolved again; the registry
\* holds one entry for each of two records of the same family.
C17_Witness ==
  /\ lastOp.op = "Resolve" /\ lastOp.ret
  /\ lastOp.face \in Records
  /\ EntryRegistered(lastOp.face)
  /\ \E n \in FamilyNames : Len(families[n]) = 2
  /\ RegistrySize(families) = 2

\* ---- the source array ------------------------------------------------------------
\* A source array was built from a source list.
BuildDone == built # NoBuild /\ ~built.hasFontData

\* The components that stand for a source: local names and URLs with a URI.
SourcePositions(list) ==
  {p \in 1..Len(list) :
     \/ list[p].tag = "Local"
     \/ list[p].tag = "Url" /\ list[p].uri # NullURI}

\* The k-th smallest member of a set of positions.
NthPosition(S, k) == CHOOSE p \in S : Cardinality({q \in S : q < p}) = k - 1

\* The format hint that follows the URL at position p, if any.
HintAfter(list, p) ==
  IF p + 1 <= Len(list) /\ IsFormatHint(list[p + 1]) THEN Some(list[p + 1]) ELSE Nothing

\* The tech() that follows the URL at position p (and its format hint), if any.
TechAfter(list, p) ==
  LET q == p + Len(HintAfter(list, p)) + 1 IN
  IF q <= Len(list) /\ list[q].tag = "TechFlags" THEN Some(list[q]) ELSE Nothing

\* C18: for a well-formed source list the array holds one source for each
\* local name and each URL that has a URI, in the order of the list: a local
\* source carries the name; a URL source carries the URI, the keyword of a
\* format() keyword that follows it, a format other than None exactly when a
\* format hint follows, and the flags of the tech() that follows (else none).
C18_OneSourcePerToken ==
  (BuildDone /\ WellFormed(built.list)) =>
    LET list == built.list
        srcArray == built.srcArray
        S == SourcePositions(list)
    IN /\ Len(srcArray) = Cardinality(S)
       /\ \A k \in 1..Len(srcArray) :
            LET p == NthPosition(S, k)
                src == srcArray[k]
                hint == HintAfter(list, p)
                tech == TechAfter(list, p)
            IN /\ list[p].tag = "Local" =>
                    src = FontFaceSrc("Local", list[p].name, NullURI, "None", "Empty")
               /\ list[p].tag = "Url" =>
                    /\ src.mSourceType = "URL"
                    /\ src.mURI = list[p].uri
                    /\ src.mLocalName = ""
                    /\ (hint # Nothing) <=> (src.mFormatHint # "None")
                    /\ (hint # Nothing /\ hint[1].tag = "FormatHintKeyword") =>
                         src.mFormatHint = hint[1].keyword
                    /\ src.mTechFlags = IF tech # Nothing THEN tech[1].tech ELSE "Empty"

\* [Url(u1), FormatHintKeyword(woff2)] gave one source with format woff2, and
\* the face got an entry.
C18_Witness ==
  /\ built.list = <<UrlComponent("u1"), FormatHintKeywordComponent("Woff2")>>
  /\ built.srcArray = <<FontFaceSrc("URL", "", "u1", "Woff2", "Empty")>>
  /\ built.entry # None

\* The URL a component belongs to: a format hint or tech() belongs to the URL
\* before it, any other component to itself.
OwnerPosition(list, p) ==
  IF IsFormatHint(list[p]) THEN p - 1
  ELSE IF list[p].tag = "TechFlags"
  THEN (IF list[p - 1].tag = "Url" THEN p - 1 ELSE p - 2)
  ELSE p

\* The list without the URLs that have no URI and without their format
\* hints and tech() components.
WithoutNullUrls(list) ==
  LET keep == {p \in 1..Len(list) :
                 ~(list[OwnerPosition(list, p)].tag = "Url"
                   /\ list[OwnerPosition(list, p)].uri = NullURI)}
  IN [k \in 1..Cardinality(keep) |-> list[NthPosition(keep, k)]]

\* C19: a URL without a URI leaves no source; the array is the one built from
\* the list without such URLs and their format hints and tech() components
\* (so every other source is as it would be without them, in order); no source
\* of the array lacks both a URI and a local name; and the resolution yields
\* no entry exactly when the array is empty.
C19_NullUrlDropped ==
  /\ (BuildDone /\ WellFormed(built.list)) =>
       /\ built.srcArray =
            BuildSrcArray(FALSE, WithoutNullUrls(built.list), built.variations)
       /\ Len(built.srcArray) = Cardinality(SourcePositions(built.list))
       /\ \A k \in 1..Len(built.srcArray) :
            \/ built.srcArray[k].mSourceType = "Local"
            \/ built.srcArray[k].mSourceType = "URL" /\ built.srcArray[k].mURI # NullURI
  /\ built # NoBuild => ((built.entry = None) <=> (built.srcArray = <<>>))

\* A URL without a URI and its format hint came before a local name: the
\* array holds the local source alone, with no format, and the face got an
\* entry.
C19_Witness ==
  /\ built.list = <<UrlComponent(NullURI), FormatHintKeywordComponent("Woff"),
                    LocalComponent("l1")>>
  /\ built.srcArray = <<FontFaceSrc("Local", "l1", NullURI, "None", "Empty")>>
  /\ built.entry # None

\* The recognized format names and the keyword each stands for.
RecognizedNames(variations) ==
  {<<StrWoff, "Woff">>, <<StrWoff2, "Woff2">>, <<StrOpentype, "Opentype">>,
   <<StrTruetype, "Truetype">>, <<StrTruetypeAat, "Truetype">>,
   <<StrEmbeddedOpentype, "EmbeddedOpentype">>, <<StrSvg, "Svg">>}
  \cup IF variations
       THEN {<<StrWoffVariations, "Woff">>, <<StrWoff2Variations, "Woff2">>,
             <<StrOpentypeVariations, "Opentype">>,
             <<StrTruetypeVariations, "Truetype">>}
       ELSE {}

\* A string with its upper-case ASCII letters made lower-case.
LowerCased(str) == [i \in 1..Len(str) |-> IF str[i] \in 65..90 THEN str[i] + 32 ELSE str[i]]

\* C20: a URL source with no format hint after it has format None; one with a
\* format() string has, when the string lower-cased is a recognized name, the
\* format of that name's keyword (the source is the one the keyword would
\* give), and otherwise the format Unknown.
C20_FormatHint ==
  (BuildDone /\ WellFormed(built.list)) =>
    LET list == built.list
        S == SourcePositions(list)
    IN \A k \in 1..Len(built.srcArray) :
         LET p == NthPosition(S, k)
             hint == HintAfter(list, p)
             src == built.srcArray[k]
         IN list[p].tag = "Url" =>
              /\ hint = Nothing => src.mFormatHint = "None"
              /\ (hint # Nothing /\ hint[1].tag = "FormatHintString") =>
                   LET names == {n \in RecognizedNames(built.variations) :
                                   LowerCased(hint[1].str) = n[1]}
                   IN /\ names = {} => src.mFormatHint = "Unknown"
                      /\ \A n \in names :
                           /\ src.mFormatHint = n[2]
                           /\ built.srcArray =
                                BuildSrcArray(FALSE,
                                  [list EXCEPT ![p + 1] = FormatHintKeywordComponent(n[2])],
                                  built.variations)

\* [Url(u1), FormatHintString("WOFF")] gave one source with format Woff.
C20_Witness ==
  /\ built.list = <<UrlComponent("u1"), FormatHintStringComponent(<<87, 79, 70, 70>>)>>
  /\ built.srcArray = <<FontFaceSrc("URL", "", "u1", "Woff", "Empty")>>

\* The one source of a face that has font data.
BufferSrc == FontFaceSrc("Buffer", "", NullURI, "None", "Empty")

\* C21: a face with font data resolves to the buffer source alone, whatever a
\* source list would hold.  A face whose source array is empty, or that has no
\* family name, gets no entry: the insertion leaves the registry and every
\* entry as they were, and no family ever holds an entry of that face.  Any
\* other face gets an entry, which the insertion appends to the family the
\* face names.
C21_BufferOrNothing ==
  /\ [](built # NoBuild =>
          LET f == built.face IN
          /\ built.hasFontData => built.srcArray = <<BufferSrc>>
          /\ BuildSrcArray(TRUE, built.list, built.variations) = <<BufferSrc>>
          /\ (built.entry = None)
               <=> (built.srcArray = <<>> \/ faceFamily[f] = NoFamily)
          /\ built.entry = None =>
               /\ faceEntry[f] = None
               /\ entryFamily[f] = EmptyName
               /\ \A n \in FamilyNames : ~Contains(families[n], f))
  /\ [][built' # built =>
          IF built'.entry = None
          THEN /\ families' = families
               /\ entryFamily' = entryFamily
               /\ entryAttributes' = entryAttributes
               /\ faceEntry' = faceEntry
          ELSE /\ faceEntry'[built'.face] = built'.entry
               /\ families'[faceFamily[built'.face]] =
                    Append(families[faceFamily[built'.face]], built'.entry)
               /\ \A n \in FamilyNames \ {faceFamily[built'.face]} :
                    families'[n] = families[n]
       ]_vars

\* A face of family "A" with font data was inserted: one buffer source, and
\* its entry is in family "A".
C21_Witness ==
  /\ built # NoBuild
  /\ built.hasFontData
  /\ built.srcArray = <<BufferSrc>>
  /\ faceFamily[built.face] = "A"
  /\ families["A"] = <<faceEntry[built.face]>>

\* ---- ranges and range flags ---------------------------------------------------
\* The attributes resolved for face f if its descriptor held the given
\* weight, stretch and style.
AttributesWith(f, weight, stretch, style) ==
  DescriptorAttributes(
    [St EXCEPT !.faceDescriptors[f].weight = weight,
               !.faceDescriptors[f].stretch = stretch,
               !.faceDescriptors[f].style = style], f)

ExplicitNormalStyle == Some([tag |-> "Normal", min |-> 0, max |-> 0])

\* C22: in the attributes of every entry the auto flag of an axis is set
\* exactly when the descriptor of the face leaves that axis unspecified, and
\* no other flag is set; an axis left unspecified and an axis given as normal
\* resolve to the same (normal) range, and the attributes of the two cases
\* differ in that axis's flag and in nothing else.
C22_AutoFlags ==
  \A f \in NonRuleFaces :
    faceEntry[f] # None =>
      LET a == entryAttributes[faceEntry[f]]
          d == faceDescriptors[f]
      IN /\ a.rangeFlags \subseteq {"eAutoWeight", "eAutoStretch", "eAutoSlantStyle"}
         /\ ("eAutoWeight" \in a.rangeFlags) <=> (d.weight = Nothing)
         /\ ("eAutoStretch" \in a.rangeFlags) <=> (d.stretch = Nothing)
         /\ ("eAutoSlantStyle" \in a.rangeFlags) <=> (d.style = Nothing)
         /\ d.weight \in {Nothing, Some(<<NORMAL, NORMAL>>)} =>
              a.weight = <<NORMAL, NORMAL>>
         /\ d.stretch \in {Nothing, Some(<<STRETCH_NORMAL, STRETCH_NORMAL>>)} =>
              a.stretch = <<STRETCH_NORMAL, STRETCH_NORMAL>>
         /\ d.style \in {Nothing, ExplicitNormalStyle} =>
              a.style = <<SLANT_NORMAL, SLANT_NORMAL>>
         /\ AttributesWith(f, Some(<<NORMAL, NORMAL>>), d.stretch, d.style) =
              [AttributesWith(f, Nothing, d.stretch, d.style)
                 EXCEPT !.rangeFlags = @ \ {"eAutoWeight"}]
         /\ AttributesWith(f, d.weight, Some(<<STRETCH_NORMAL, STRETCH_NORMAL>>), d.style) =
              [AttributesWith(f, d.weight, Nothing, d.style)
                 EXCEPT !.rangeFlags = @ \ {"eAutoStretch"}]
         /\ AttributesWith(f, d.weight, d.stretch, ExplicitNormalStyle) =
              [AttributesWith(f, d.weight, d.stretch, Nothing)
                 EXCEPT !.rangeFlags = @ \ {"eAutoSlantStyle"}]

\* Two entries with the same normal ranges: one of a face that specifies no
\* axis (all three flags), one of a face that gives every axis as normal (no
\* flag).
C22_Witness ==
  \E f, g \in NonRuleFaces :
    /\ faceEntry[f] # None /\ faceEntry[g] # None
    /\ faceDescriptors[f].weight = Nothing
    /\ faceDescriptors[f].stretch = Nothing
    /\ faceDescriptors[f].style = Nothing
    /\ faceDescriptors[g].weight = Some(<<NORMAL, NORMAL>>)
    /\ faceDescriptors[g].stretch = Some(<<STRETCH_NORMAL, STRETCH_NORMAL>>)
    /\ faceDescriptors[g].style = ExplicitNormalStyle
    /\ entryAttributes[faceEntry[f]].rangeFlags =
         {"eAutoWeight", "eAutoStretch", "eAutoSlantStyle"}
    /\ entryAttributes[faceEntry[g]].rangeFlags = eNoFlags
    /\ entryAttributes[faceEntry[f]].weight = entryAttributes[faceEntry[g]].weight
    /\ entryAttributes[faceEntry[f]].stretch = entryAttributes[faceEntry[g]].stretch
    /\ entryAttributes[faceEntry[f]].style = entryAttributes[faceEntry[g]].style

\* ---- notifications and the owning thread ---------------------------------------
\* The calls that can run the status checks.
StatusCheckCalls ==
  [op : {"Add", "Delete"}, face : Faces, status : {"Unloaded"}, inTraversal : {FALSE}]
  \cup [op : {"Clear"}, face : {None}, status : {"Unloaded"}, inTraversal : {FALSE}]
  \cup [op : {"SetStatus"},
        face : {g \in NonRuleFaces : faceStatus[g] \notin TerminalStatuses},
        status : FaceStatuses \ {"Unloaded"}, inTraversal : BOOLEAN]

\* What call c leaves behind when it is made in the current state on the
\* owning thread (onOwner) or on another thread.
Outcome(c, onOwner) ==
  IF c.op = "Add" THEN Add(St, c.face, onOwner).st
  ELSE IF c.op = "Delete" THEN Delete(St, c.face, onOwner).st
  ELSE IF c.op = "Clear" THEN Clear(St, onOwner)
  ELSE SetStatus(St, c.face, c.status, onOwner, c.inTraversal)

\* The notification and the task that go with an aggregate status.
NotificationFor(status) == IF status = "Loading" THEN "loading" ELSE "loadingdone"

TaskFor(status) == IF status = "Loading" THEN "OnLoadingStarted" ELSE "OnLoadingFinished"

NotificationTasks(q) ==
  SelectSeq(q, LAMBDA task : task \in {"OnLoadingStarted", "OnLoadingFinished"})

\* C23: a call made on another thread never notifies the owner, and a call
\* made on the owning thread never dispatches a notification task.  Whatever
\* the call, either it notifies on neither thread and leaves the same state
\* on both, or on the owning thread it notifies the owner within the call and
\* on another thread it appends the task for that notification to the queue
\* of the owning thread, the rest of the state being the same.  (The queue is
\* run by the owning thread alone.)
C23_NotifiedOnOwningThread ==
  \A c \in StatusCheckCalls :
    LET a == Outcome(c, TRUE)
        b == Outcome(c, FALSE)
    IN /\ b.notifs = notifs
       /\ b.readyPending = readyPending
       /\ NotificationTasks(a.queue) = NotificationTasks(queue)
       /\ [b EXCEPT !.queue = a.queue, !.notifs = a.notifs,
                    !.readyPending = a.readyPending] = a
       /\ \/ /\ b.queue = a.queue
             /\ a.notifs = notifs
             /\ a.readyPending = readyPending
          \/ /\ b.queue = Append(a.queue, TaskFor(a.mStatus))
             /\ a.notifs = LastTwo(Append(notifs, NotificationFor(a.mStatus)))
             /\ a.readyPending = (a.mStatus = "Loading")

\* A face began to load on another thread: the aggregate status is Loading,
\* the loading-started task waits in the queue and the owner has not been
\* notified of anything yet.
C23_Witness ==
  /\ RecordsLoading
  /\ mStatus = "Loading"
  /\ queue = <<"OnLoadingStarted">>
  /\ notifs = <<>>

\* A task of the owning thread runs in this step: the head of the queue.
TaskRuns(task) == queue # <<>> /\ Head(queue) = task /\ queue' = Tail(queue)

\* C24 (as claimed): a loading-started task that runs when the aggregate
\* status is no longer Loading, and a loading-finished task that runs when it
\* is no longer Loaded, do not notify the owner.
C24_Claim ==
  [][/\ (TaskRuns("OnLoadingStarted") /\ mStatus # "Loading") =>
          (notifs' = notifs /\ readyPending' = readyPending)
     /\ (TaskRuns("OnLoadingFinished") /\ mStatus # "Loaded") =>
          (notifs' = notifs /\ readyPending' = readyPending)
    ]_vars

\* C25: the step that releases the owner first cancels every outstanding
\* loader, empties the loader table, the records and the registry, all while
\* the owner is still held and in the one step that holds the lock; and once
\* the owner is released no step, a task enqueued before the tear-down
\* included, delivers a notification to the owner.
C25_TeardownSilences ==
  [][/\ (mOwner /\ ~mOwner') =>
          LET x == BeforeOwnerReleased(St)
          IN /\ x.mOwner
             /\ x.mLoaders = {}
             /\ mLoaders \subseteq x.cancelled
             /\ x.mNonRuleFaces = <<>>
             /\ \A n \in FamilyNames : x.families[n] = <<>>
             /\ St' = [x EXCEPT !.mOwner = FALSE]
     /\ ~mOwner =>
          /\ mOwner' = FALSE
          /\ mLoaders' = {}
          /\ notifs' = notifs
          /\ readyPending' = readyPending
    ]_vars

\* A face was loading with a loader when the set was torn down: the loader is
\* cancelled, the aggregate status is Loading, the queue has drained, and the
\* owner was never notified.
C25_Witness ==
  /\ ~mOwner
  /\ cancelled # {}
  /\ mStatus = "Loading"
  /\ queue = <<>>
  /\ notifs = <<>>

\* C26 (as claimed): whenever the has-loading dirty bit is clear, the cached
\* flag says whether some face of the current record list has status Loading;
\* add, delete, clear, a status change and the tear-down all invalidate the
\* cache, so no step leaves it stale.
C26_Claim ==
  ~mHasLoadingFontFacesIsDirty => (mHasLoadingFontFaces <=> RecordsLoading)

\* C27 (as claimed): the notifications delivered to the owner strictly
\* alternate: of any two consecutive notifications one is loading-started and
\* the other loading-finished, so a loading-finished is delivered only after
\* a loading-started that no other loading-finished has answered yet.
C27_Claim ==
  Len(notifs) = 2 => notifs[1] # notifs[2]

\* C28: at most one delayed finish check is scheduled at any time, and the
\* delay flag is set exactly while one is scheduled and has not run; a step
\* taken while the flag is set schedules no further check, and the flag is
\* cleared only by the step in which the scheduled check runs.
C28_OneDelayedCheck ==
  /\ [](ScheduledDelayedChecks <= 1)
  /\ [](mDelayedLoadCheck <=> ScheduledDelayedChecks = 1)
  /\ [][/\ mDelayedLoadCheck => ScheduledDelayedChecks' <= ScheduledDelayedChecks
        /\ (mDelayedLoadCheck /\ ~mDelayedLoadCheck') =>
             TaskRuns("CheckLoadingFinishedAfterDelay")
       ]_vars

\* Two faces of the set have finished, the aggregate status is still Loading,
\* and one delayed check waits in the queue.
C28_Witness ==
  /\ mDelayedLoadCheck
  /\ mStatus = "Loading"
  /\ queue = <<"CheckLoadingFinishedAfterDelay">>
  /\ ~postTraversal
  /\ \E i, j \in 1..Len(mNonRuleFaces) :
       /\ i # j
       /\ faceStatus[mNonRuleFaces[i]] \in TerminalStatuses
       /\ faceStatus[mNonRuleFaces[j]] \in TerminalStatuses

====
